---- MODULE Spec2Model ----
(***************************************************************************)
(* Task-management dashboard: the mock backend (TaskAPI, src/lib/api.ts)   *)
(* and the task store built on it (taskActions, src/lib/stores/taskStore). *)
(*                                                                         *)
(* Time is a sequence of distinguishable instants: two readings of the     *)
(* clock are equal when they fall in the same millisecond, and the clock   *)
(* never runs backwards.  Every simulated latency (300..1000 ms) spans at  *)
(* least one instant, so a call issued at instant c resumes at an instant  *)
(* later than c.  What runs between two awaits is one step.                *)
(***************************************************************************)
EXTENDS Integers, Sequences, FiniteSets, TLC

\* ---------------------------------------------------------------- bounds
\* calls issued in a run
MaxCalls == 2
\* how many of the eight seed tasks of mockData the model keeps (the first ones)
NumSeed == 2
\* Math.random() yields one of 0..RandMax
RandMax == 1
\* longest list handed to bulkUpdateTasks / bulkDeleteTasks
MaxBulk == 2
\* tasks in a list given to filterTasks or sortTasks
MaxList == 3
\* tasks in a collection whose statistics are taken
MaxStatsTasks == 40
\* calls of addNotification
MaxAdds == 3
\* instants that pass without a timer falling due
MaxLate == 2

\* ---------------------------------------------------- program constants
\* simulated latencies of api.ts, in ms
DelayGetTasks == 500
DelayGetTask == 300
DelayCreate == 800
DelayUpdate == 600
DelayDelete == 400
DelayBulkUpdate == 1000
DelayBulkDelete == 800

\* uiStore.ts: notification.duration ?? 5000
DefaultDuration == 5000
\* the duration the notification tests give a short-lived notification
ShortDuration == 100

\* JS undefined for an optional description
Undefined == "<undefined>"

\* mockData.ts: the seed tasks without their ids; the dates are minutes
\* counted from 2024-01-15T09:00
SeedData ==
  << [title |-> "Set up project structure",
      description |-> "Create the basic folder structure and initialize the SvelteKit project with TypeScript",
      status |-> "completed", createdAt |-> 0, updatedAt |-> 150],
     [title |-> "Design task card component",
      description |-> "Create a reusable task card component with proper styling and interactions",
      status |-> "completed", createdAt |-> 60, updatedAt |-> 1760],
     [title |-> "Implement task filtering",
      description |-> "Add functionality to filter tasks by status and search by title/description",
      status |-> "in-progress", createdAt |-> 1455, updatedAt |-> 2985],
     [title |-> "Add drag and drop functionality",
      description |-> "Implement drag and drop to reorder tasks and change their status",
      status |-> "pending", createdAt |-> 1770, updatedAt |-> 1770],
     [title |-> "Write comprehensive tests",
      description |-> "Add unit tests for all components and stores with at least 80% coverage",
      status |-> "pending", createdAt |-> 2820, updatedAt |-> 2820],
     [title |-> "Implement dark mode toggle",
      description |-> "Add a toggle to switch between light and dark themes",
      status |-> "in-progress", createdAt |-> 3000, updatedAt |-> 3270],
     [title |-> "Optimize performance",
      description |-> "Review and optimize component rendering and state updates for better performance",
      status |-> "pending", createdAt |-> 3300, updatedAt |-> 3300],
     [title |-> "Add accessibility features",
      description |-> "Ensure all components are accessible with proper ARIA attributes and keyboard navigation",
      status |-> "pending", createdAt |-> 4350, updatedAt |-> 4350] >>

\* the instant at which the modules are loaded: later than every seed date
StartTime == SeedData[Len(SeedData)].updatedAt + 1

Rand == 0..RandMax

\* ---------------------------------------------------------------- inputs
\* an id no task ever gets ('non-existent-id' of the tests)
BogusId == <<0, 0>>

\* CreateTaskData handed to createTask
CreateInputs ==
  { [title |-> "New Test Task", description |-> "Test description", status |-> "pending"],
    [title |-> "Temporary Task", description |-> Undefined, status |-> "in-progress"] }

\* UpdateTaskData: any subset of title, description, status
UpdateInputs ==
  { [title |-> "New Title"],
    [description |-> Undefined, status |-> "completed"] }

\* result messages a substituted facade returns with success=false
\* (taskStore.test.ts), or none at all (ApiResponse.message is optional)
FailureMessages == {"API Error", Undefined}

VARIABLES
  clock,       \* the current instant (Date.now())
  unread,      \* whether no step has read the clock since it last changed
  mockTasks,   \* mockData.ts: the seed, fixed at module load
  tasks,       \* api.ts: the facade's collection
  assigned,    \* every id generateId has returned so far
  reused,      \* whether generateId ever returned an id it had returned before
  storeTasks,  \* taskStore: tasks
  isLoading,   \* taskStore: isLoading
  error,       \* taskStore: error (Undefined models null)
  pending,     \* calls awaiting their delay, in the order they were issued
  calls,       \* how many calls were issued so far
  last,        \* what the latest step did: the call, its response, what it returned
  args,        \* utils.ts: the arguments a utility function is applied to
  result,      \* utils.ts: what the latest application returned
  isCreateModalOpen,  \* uiStore: isCreateModalOpen
  isEditModalOpen,    \* uiStore: isEditModalOpen
  isDeleteModalOpen,  \* uiStore: isDeleteModalOpen
  editingTask,        \* uiStore: editingTask (<<>> models null, <<task>> a task)
  deletingTask,       \* uiStore: deletingTask (<<>> models null, <<task>> a task)
  theme,              \* uiStore: theme
  notifications,      \* uiStore: notifications
  timers,             \* the setTimeout callbacks of addNotification not yet run
  selectedTaskIds,    \* uiStore: selectedTaskIds
  isSelectMode,       \* uiStore: isSelectMode
  added,              \* how many notification objects addNotification has made
  uiLast,             \* what the latest uiActions call was, and the state it found
  filterStatus,       \* taskStore: filterStatus
  searchQuery,        \* taskStore: searchQuery
  sortField,          \* taskStore: sortField
  sortDirection,      \* taskStore: sortDirection
  browser,            \* $app/environment: whether the module runs in the browser
  running,            \* whether the page is open (between a start and its close)
  localStorage,       \* window.localStorage: key -> <<>> (no item) or <<item>>
  storageFull,        \* whether localStorage.setItem throws while the page is open
  sidebarCollapsed,   \* uiStore: sidebarCollapsed
  viewMode,           \* uiStore: viewMode
  enableAnimations,   \* uiStore: enableAnimations
  itemsPerPage,       \* uiStore: itemsPerPage
  isDragDropEnabled   \* uiStore: isDragDropEnabled

taskVars == <<clock, unread, mockTasks, tasks, assigned, reused, storeTasks, isLoading, error, pending, calls, last>>

utilVars == <<args, result>>

uiVars == <<isCreateModalOpen, isEditModalOpen, isDeleteModalOpen, editingTask, deletingTask,
            theme, notifications, timers, selectedTaskIds, isSelectMode, added, uiLast>>

viewVars == <<filterStatus, searchQuery, sortField, sortDirection>>

prefVars == <<browser, running, localStorage, storageFull, sidebarCollapsed, viewMode, enableAnimations,
              itemsPerPage, isDragDropEnabled>>

vars == <<taskVars, utilVars, uiVars, viewVars, prefVars>>

\* ------------------------------------------------------------ utils.ts
\* Date.now().toString(36) + Math.random().toString(36).substr(2): the
\* millisecond in a fixed number of digits, then the random digits
generateId(now, rnd) == <<now, rnd>>

\* ------------------------------------------------------- array helpers
RECURSIVE FindFrom(_, _, _)
FindFrom(ts, id, i) ==
  IF i > Len(ts) THEN 0
  ELSE IF ts[i].id = id THEN i
  ELSE FindFrom(ts, id, i + 1)

\* tasks.findIndex(t => t.id === id); 0 stands for -1
FindIndex(ts, id) == FindFrom(ts, id, 1)

\* tasks.splice(i, 1)
Splice(ts, i) == SubSeq(ts, 1, i - 1) \o SubSeq(ts, i + 1, Len(ts))

\* tasks[i] = t
ReplaceAt(ts, i, t) == [ts EXCEPT ![i] = t]

Ids(ts) == {ts[i].id : i \in 1..Len(ts)}

\* ------------------------------------------------------------- api.ts
\* the {data, success, message[, deletedCount]} result; data is the list of
\* returned tasks (empty for null)
Response(data, success, message, deletedCount) ==
  [data |-> data, success |-> success, message |-> message, deletedCount |-> deletedCount]

NotFound == Response(<<>>, FALSE, "Task not found", 0)

\* a facade step: the collection it leaves and the result it returns
Outcome(ts, resp) == [tasks |-> ts, resp |-> resp]

\* a createTask that pushes instead of unshifting
UnshiftAtEnd(ts, t) == Append(ts, t)

\* tasks.unshift(newTask)
Unshift(ts, t) == <<t>> \o ts

\* a createTask that swaps the two dates
NewTaskSwapped(id, taskData, c, u) ==
  [id |-> id, title |-> taskData.title, description |-> taskData.description,
   status |-> taskData.status, createdAt |-> u, updatedAt |-> c]

\* the object literal of createTask; c and u are the two readings new Date()
NewTask(id, taskData, c, u) ==
  [id |-> id, title |-> taskData.title, description |-> taskData.description,
   status |-> taskData.status, createdAt |-> c, updatedAt |-> u]

\* a merge that spreads the payload first, so the old fields win
MergeUpdateOldWins(t, updateData, now) ==
  [id |-> t.id, title |-> t.title, description |-> t.description, status |-> t.status,
   createdAt |-> t.createdAt, updatedAt |-> now]

\* { ...task, ...updateData, updatedAt: new Date() }
MergeUpdate(t, updateData, now) ==
  [id |-> t.id,
   title |-> IF "title" \in DOMAIN updateData THEN updateData.title ELSE t.title,
   description |-> IF "description" \in DOMAIN updateData
                   THEN updateData.description ELSE t.description,
   status |-> IF "status" \in DOMAIN updateData THEN updateData.status ELSE t.status,
   createdAt |-> t.createdAt,
   updatedAt |-> now]

getTasks(ts) == Outcome(ts, Response(ts, TRUE, "Tasks retrieved successfully", 0))

getTask(ts, id) ==
  LET i == FindIndex(ts, id)
  IN IF i = 0 THEN Outcome(ts, NotFound)
     ELSE Outcome(ts, Response(<<ts[i]>>, TRUE, "Task retrieved successfully", 0))

createTask(ts, taskData, id, c, u) ==
  LET newTask == NewTask(id, taskData, c, u)
  IN Outcome(Unshift(ts, newTask),
             Response(<<newTask>>, TRUE, "Task created successfully", 0))

updateTask(ts, id, updateData, now) ==
  LET taskIndex == FindIndex(ts, id)
  IN IF taskIndex = 0 THEN Outcome(ts, NotFound)
     ELSE LET updatedTask == MergeUpdate(ts[taskIndex], updateData, now)
          IN Outcome(ReplaceAt(ts, taskIndex, updatedTask),
                     Response(<<updatedTask>>, TRUE, "Task updated successfully", 0))

\* a deleteTask without the not-found check: splice(-1, 1) drops the last task
deleteTaskUnchecked(ts, id) ==
  LET taskIndex == FindIndex(ts, id)
  IN Outcome(Splice(ts, IF taskIndex = 0 THEN Len(ts) ELSE taskIndex),
             Response(<<>>, TRUE, "Task deleted successfully", 0))

deleteTask(ts, id) ==
  LET taskIndex == FindIndex(ts, id)
  IN IF taskIndex = 0 THEN Outcome(ts, NotFound)
     ELSE Outcome(Splice(ts, taskIndex),
                  Response(<<>>, TRUE, "Task deleted successfully", 0))

\* the loop of bulkUpdateTasks from entry k on; times[k] is the reading
\* new Date() of the k-th pass
RECURSIVE BulkUpdateLoop(_, _, _, _, _)
BulkUpdateLoop(ts, updates, times, k, updatedTasks) ==
  IF k > Len(updates) THEN [tasks |-> ts, updatedTasks |-> updatedTasks]
  ELSE LET taskIndex == FindIndex(ts, updates[k].id)
       IN IF taskIndex = 0
          THEN BulkUpdateLoop(ts, updates, times, k + 1, updatedTasks)
          ELSE LET updatedTask == MergeUpdate(ts[taskIndex], updates[k].data, times[k])
               IN BulkUpdateLoop(ReplaceAt(ts, taskIndex, updatedTask), updates, times,
                                 k + 1, Append(updatedTasks, updatedTask))

bulkUpdateTasks(ts, updates, times) ==
  LET r == BulkUpdateLoop(ts, updates, times, 1, <<>>)
  IN Outcome(r.tasks, Response(r.updatedTasks, TRUE, ToString(Len(r.updatedTasks)) \o " tasks updated successfully", 0))

\* the loop of bulkDeleteTasks from entry k on
RECURSIVE BulkDeleteLoop(_, _, _, _)
BulkDeleteLoop(ts, ids, k, deletedCount) ==
  IF k > Len(ids) THEN [tasks |-> ts, deletedCount |-> deletedCount]
  ELSE LET taskIndex == FindIndex(ts, ids[k])
       IN IF taskIndex = 0
          THEN BulkDeleteLoop(ts, ids, k + 1, deletedCount)
          ELSE BulkDeleteLoop(Splice(ts, taskIndex), ids, k + 1, deletedCount + 1)

bulkDeleteTasks(ts, ids) ==
  LET r == BulkDeleteLoop(ts, ids, 1, 0)
  IN Outcome(r.tasks, Response(<<>>, TRUE, ToString(r.deletedCount) \o " tasks deleted successfully", r.deletedCount))

\* a resetData that clears the collection instead of restoring the seed
resetDataEmpty(seed) == <<>>

\* tasks = [...mockTasks]
resetData(seed) == seed

\* -------------------------------------------------------- taskStore.ts
Map(f(_), s) == [i \in 1..Len(s) |-> f(s[i])]

\* a createTask whose result never reaches the store
StorePrependDropped(st, t) == st

\* tasks.update($tasks => [response.data, ...$tasks])
StorePrepend(st, t) == <<t>> \o st

\* $tasks.map(task => task.id === id ? response.data : task)
StoreReplace(st, id, t) ==
  LET pick(task) == IF task.id = id THEN t ELSE task
  IN Map(pick, st)

\* $tasks.filter(task => task.id !== id)
StoreRemove(st, id) == SelectSeq(st, LAMBDA task : task.id # id)

\* $tasks.map(task => response.data.find(updated => updated.id === task.id) || task)
StoreMerge(st, data) ==
  LET pick(task) == LET i == FindIndex(data, task.id)
                    IN IF i = 0 THEN task ELSE data[i]
  IN Map(pick, st)

\* $tasks.filter(task => !ids.includes(task.id))
StoreRemoveAll(st, ids) ==
  SelectSeq(st, LAMBDA task : \A k \in 1..Len(ids) : ids[k] # task.id)

\* an else branch that ignores the returned message
MessageIgnored(message, fallback) == fallback

\* response.message || fallback
MessageOr(message, fallback) ==
  IF message = Undefined \/ message = "" THEN fallback ELSE message

\* -------------------------------------------------------------- calls
\* a call with its arguments: the operation, the id and payload or the list
\* it was given, the instant it was issued
Call(op, id, data, list, at) == [op |-> op, id |-> id, data |-> data, list |-> list, at |-> at]

NoCall == Call("none", BogusId, <<>>, <<>>, 0)

\* a call in flight.  Its arguments are the caller's choice and nothing reads
\* them before the call resumes, so the model draws them at that step: an id
\* is one the caller can have seen when it made the call, or one that never
\* existed
Waiting(op, at, known) == [op |-> op, at |-> at, known |-> known]

NoResponse == Response(<<>>, FALSE, Undefined, 0)

\* what a store action returns to its caller
Returned(kind, data, count) == [kind |-> kind, data |-> data, count |-> count]

\* the record of a step that resumed a call
Step(call, resp, threw, ret, now, prevTasks, prevStore) ==
  [op |-> call.op, call |-> call, resp |-> resp, threw |-> threw, ret |-> ret,
   now |-> now, prevTasks |-> prevTasks, prevStore |-> prevStore]

Idle == Step(NoCall, NoResponse, FALSE, Returned("none", <<>>, 0), 0, <<>>, <<>>)

Delay(op) ==
  CASE op = "loadTasks" -> DelayGetTasks
    [] op = "getTask" -> DelayGetTask
    [] op = "createTask" -> DelayCreate
    [] op = "updateTask" -> DelayUpdate
    [] op = "deleteTask" -> DelayDelete
    [] op = "bulkUpdateTasks" -> DelayBulkUpdate
    [] op = "bulkDeleteTasks" -> DelayBulkDelete

\* setTimeout: the i-th call in flight may resume once its delay has passed;
\* a call issued earlier with a delay no longer than its own resumes first
CanResume(i, op) ==
  /\ pending[i].op = op
  /\ clock > pending[i].at
  /\ \A j \in 1..(i - 1) : Delay(pending[j].op) > Delay(op)

Remove(p, i) == SubSeq(p, 1, i - 1) \o SubSeq(p, i + 1, Len(p))

\* ids the caller of the i-th call in flight may have passed
CallIds(i) == pending[i].known \cup {BogusId}

\* lists of at most MaxBulk elements of S
Lists(S) == UNION {[1..n -> S] : n \in 0..MaxBulk}

StoreOps == {"loadTasks", "createTask", "updateTask", "deleteTask",
             "bulkUpdateTasks", "bulkDeleteTasks"}

\* the text of each catch branch
NetworkError(op) ==
  CASE op = "loadTasks" -> "Network error while loading tasks"
    [] op = "createTask" -> "Network error while creating task"
    [] op = "updateTask" -> "Network error while updating task"
    [] op = "deleteTask" -> "Network error while deleting task"
    [] op = "bulkUpdateTasks" -> "Network error while updating tasks"
    [] op = "bulkDeleteTasks" -> "Network error while deleting tasks"

\* the fallback text of each else branch
Fallback(op) ==
  CASE op = "loadTasks" -> "Failed to load tasks"
    [] op = "createTask" -> "Failed to create task"
    [] op = "updateTask" -> "Failed to update task"
    [] op = "deleteTask" -> "Failed to delete task"
    [] op = "bulkUpdateTasks" -> "Failed to update tasks"
    [] op = "bulkDeleteTasks" -> "Failed to delete tasks"

\* what each action returns when it did not succeed
FailureReturn(op) ==
  CASE op = "loadTasks" -> Returned("undefined", <<>>, 0)
    [] op = "createTask" -> Returned("null", <<>>, 0)
    [] op = "updateTask" -> Returned("null", <<>>, 0)
    [] op = "deleteTask" -> Returned("false", <<>>, 0)
    [] op = "bulkUpdateTasks" -> Returned("null", <<>>, 0)
    [] op = "bulkDeleteTasks" -> Returned("count", <<>>, 0)

\* ------------------------------------------- utils.ts: filter and sort
\* the i-th character of a string
Char(str, i) == SubSeq(str, i, i)

UpperCase == "ABCDEFGHIJKLMNOPQRSTUVWXYZ"

LowerCase == "abcdefghijklmnopqrstuvwxyz"

\* where character c stands in str (0: nowhere)
IndexOf(str, c) ==
  LET at == {i \in 1..Len(str) : Char(str, i) = c}
  IN IF at = {} THEN 0 ELSE CHOOSE i \in at : \A j \in at : i <= j

\* String.prototype.toLowerCase, on the letters A-Z
RECURSIVE toLowerCase(_)
toLowerCase(str) ==
  IF Len(str) = 0 THEN ""
  ELSE LET c == Char(str, 1)
           n == IndexOf(UpperCase, c)
       IN (IF n = 0 THEN c ELSE Char(LowerCase, n)) \o toLowerCase(SubSeq(str, 2, Len(str)))

\* String.prototype.includes
includes(str, searchString) ==
  \E i \in 0..(Len(str) - Len(searchString)) :
    SubSeq(str, i + 1, i + Len(searchString)) = searchString

\* the callback of filterTasks
matchesFilter(task, statusFilter, query) ==
  LET matchesStatus == statusFilter = "all" \/ task.status = statusFilter
      matchesSearch ==
        \/ query = ""
        \/ includes(toLowerCase(task.title), toLowerCase(query))
        \/ IF task.description = Undefined THEN FALSE
           ELSE includes(toLowerCase(task.description), toLowerCase(query))
  IN matchesStatus /\ matchesSearch

\* a filter that compares the texts as they are written
filterTasksCaseSensitive(ts, statusFilter, query) ==
  SelectSeq(ts, LAMBDA task :
    /\ statusFilter = "all" \/ task.status = statusFilter
    /\ \/ query = ""
       \/ includes(task.title, query)
       \/ task.description # Undefined /\ includes(task.description, query))

filterTasks(ts, statusFilter, query) ==
  SelectSeq(ts, LAMBDA task : matchesFilter(task, statusFilter, query))

\* characters in the order of their code units
CharCodes == " 0123456789ABCDEFGHIJKLMNOPQRSTUVWXYZabcdefghijklmnopqrstuvwxyz"

\* a < b on strings: by code units, a proper prefix first
RECURSIVE LessString(_, _)
LessString(a, b) ==
  IF Len(b) = 0 THEN FALSE
  ELSE IF Len(a) = 0 THEN TRUE
  ELSE LET x == IndexOf(CharCodes, Char(a, 1))
           y == IndexOf(CharCodes, Char(b, 1))
       IN IF x < y THEN TRUE
          ELSE IF x > y THEN FALSE
          ELSE LessString(SubSeq(a, 2, Len(a)), SubSeq(b, 2, Len(b)))

statusOrder(status) ==
  CASE status = "pending" -> 0
    [] status = "in-progress" -> 1
    [] status = "completed" -> 2

\* aValue < bValue for the values the switch of sortTasks picks
ValueLess(a, b, field) ==
  CASE field = "title" -> LessString(toLowerCase(a.title), toLowerCase(b.title))
    [] field = "createdAt" -> a.createdAt < b.createdAt
    [] field = "updatedAt" -> a.updatedAt < b.updatedAt
    [] field = "status" -> statusOrder(a.status) < statusOrder(b.status)

\* the compare function of sortTasks
compare(a, b, field, direction) ==
  IF ValueLess(a, b, field) THEN (IF direction = "asc" THEN -1 ELSE 1)
  ELSE IF ValueLess(b, a, field) THEN (IF direction = "asc" THEN 1 ELSE -1)
  ELSE 0

\* one more element placed into a sorted array, behind the elements that
\* compare equal to it (Array.prototype.sort is stable)
Insert(sorted, t, field, direction) ==
  LET before == {j \in 1..Len(sorted) : compare(sorted[j], t, field, direction) > 0}
      at == IF before = {} THEN Len(sorted) + 1 ELSE CHOOSE j \in before : \A k \in before : j <= k
  IN SubSeq(sorted, 1, at - 1) \o <<t>> \o SubSeq(sorted, at, Len(sorted))

RECURSIVE SortFirst(_, _, _, _)
SortFirst(ts, n, field, direction) ==
  IF n = 0 THEN <<>>
  ELSE Insert(SortFirst(ts, n - 1, field, direction), ts[n], field, direction)

\* a sort that puts the smaller value first in both directions
sortTasksAscending(ts, field, direction) == SortFirst(ts, Len(ts), field, "asc")

sortTasks(ts, field, direction) == SortFirst(ts, Len(ts), field, direction)

\* ------------------------------------------------ taskStore: taskStats
\* JavaScript numbers are IEEE 754 doubles: a number that is not zero is kept
\* as Precision binary digits, the first of them 1, and an exponent; its value
\* is 0.d1 d2 ... dPrecision (binary) times 2^exp
Precision == 53

\* the significand is kept in three limbs <<high, middle, low>> of Limb, Limb
\* and LowLimb binary digits (whole numbers here are 32 bits wide)
Limb == (Precision + 1) \div 3

LowLimb == Precision - 2 * Limb

RECURSIVE Power2(_)
Power2(e) == IF e = 0 THEN 1 ELSE 2 * Power2(e - 1)

\* a double 0.sig * 2^exp, the first digit of sig being 1
Double(sig, exp) == [sig |-> sig, exp |-> exp]

\* the significand plus one in the last place; a carry out of the first
\* place gives <<0, 0, 0>>
Increment(sig) ==
  IF sig[3] + 1 < Power2(LowLimb) THEN <<sig[1], sig[2], sig[3] + 1>>
  ELSE IF sig[2] + 1 < Power2(Limb) THEN <<sig[1], sig[2] + 1, 0>>
  ELSE IF sig[1] + 1 < Power2(Limb) THEN <<sig[1] + 1, 0, 0>>
  ELSE <<0, 0, 0>>

\* round to nearest, ties to even: the digits kept, the first digit dropped
\* (guard), whether any later digit is 1 (sticky), the exponent
RoundToEven(kept, guard, sticky, exp) ==
  IF guard = 1 /\ (sticky \/ kept[3] % 2 = 1)
  THEN LET up == Increment(kept)
       IN IF up = <<0, 0, 0>> THEN Double(<<Power2(Limb - 1), 0, 0>>, exp + 1)
          ELSE Double(up, exp)
  ELSE Double(kept, exp)

\* the least s with a < b * 2^s
RECURSIVE Scale(_, _)
Scale(a, b) == IF a < b THEN 0 ELSE 1 + Scale(a, 2 * b)

\* how many zeros a / b has behind the point before its first 1 (0 < a < b)
RECURSIVE LeadingZeros(_, _)
LeadingZeros(a, b) == IF 2 * a >= b THEN 0 ELSE 1 + LeadingZeros(2 * a, b)

\* n / t for whole numbers n > 0, t > 0: the quotient rounded to a double,
\* by long division one limb at a time
Divide(n, t) ==
  LET k == Scale(n, t)
      d == t * Power2(k)
      z == LeadingZeros(n, d)
      r == n * Power2(z)
      high == (r * Power2(Limb)) \div d
      r1 == (r * Power2(Limb)) % d
      middle == (r1 * Power2(Limb)) \div d
      r2 == (r1 * Power2(Limb)) % d
      low == (r2 * Power2(LowLimb)) \div d
      rest == (r2 * Power2(LowLimb)) % d
      guard == IF 2 * rest >= d THEN 1 ELSE 0
  IN RoundToEven(<<high, middle, low>>, guard, 2 * rest - guard * d # 0, k - z)

\* x * m for a double x and a whole number m > 0: the product rounded to a
\* double
Times(x, m) ==
  LET low == x.sig[3] * m
      middle == x.sig[2] * m + low \div Power2(LowLimb)
      high == x.sig[1] * m + middle \div Power2(Limb)
      L == low % Power2(LowLimb)
      M == middle % Power2(Limb)
      more == Scale(high, Power2(Limb))
      dropped == L % Power2(more)
      guard == IF more > 0 THEN dropped \div Power2(more - 1) ELSE 0
      sticky == more > 0 /\ dropped % Power2(more - 1) # 0
      kept == <<high \div Power2(more),
                M \div Power2(more) + (high % Power2(more)) * Power2(Limb - more),
                L \div Power2(more) + (M % Power2(more)) * Power2(LowLimb - more)>>
  IN RoundToEven(kept, guard, sticky, x.exp + more)

\* Math.round(x) for a double 0 < x < 2^(Limb - 1): the whole part, plus one
\* when the digit for one half is set
MathRound(x) ==
  LET whole == IF x.exp >= 1 THEN x.sig[1] \div Power2(Limb - x.exp) ELSE 0
      half == IF x.exp >= 0 THEN (x.sig[1] \div Power2(Limb - x.exp - 1)) % 2 ELSE 0
  IN whole + half

\* total > 0 ? Math.round((completed / total) * 100) : 0
completionRate(completed, total) ==
  IF total > 0
  THEN (IF completed = 0 THEN 0 ELSE MathRound(Times(Divide(completed, total), 100)))
  ELSE 0

CountStatus(ts, status) == Len(SelectSeq(ts, LAMBDA task : task.status = status))

taskStats(ts) ==
  [total |-> Len(ts),
   pending |-> CountStatus(ts, "pending"),
   inProgress |-> CountStatus(ts, "in-progress"),
   completed |-> CountStatus(ts, "completed"),
   completionRate |-> completionRate(CountStatus(ts, "completed"), Len(ts))]

\* ------------------------------------------- utils.ts: localStorage
\* a JS value of one of the kinds the preference stores hold
String(str) == [kind |-> "string", str |-> str, num |-> 0, bool |-> FALSE]

Boolean(bool) == [kind |-> "boolean", str |-> "", num |-> 0, bool |-> bool]

Number(num) == [kind |-> "number", str |-> "", num |-> num, bool |-> FALSE]

DigitChars == "0123456789"

\* the decimal digits of a whole number
RECURSIVE NumberToString(_)
NumberToString(n) ==
  IF n < 10 THEN Char(DigitChars, n + 1)
  ELSE NumberToString(n \div 10) \o Char(DigitChars, (n % 10) + 1)

IsDigits(str) == Len(str) > 0 /\ \A i \in 1..Len(str) : IndexOf(DigitChars, Char(str, i)) > 0

RECURSIVE StringToNumber(_)
StringToNumber(str) ==
  IF Len(str) = 0 THEN 0
  ELSE 10 * StringToNumber(SubSeq(str, 1, Len(str) - 1))
         + (IndexOf(DigitChars, Char(str, Len(str))) - 1)

Quote == "\""

\* JSON.stringify(data) for a string without characters to escape, a boolean
\* or a whole number
JSONstringify(data) ==
  IF data.kind = "string" THEN Quote \o data.str \o Quote
  ELSE IF data.kind = "boolean" THEN (IF data.bool THEN "true" ELSE "false")
  ELSE NumberToString(data.num)

\* JSON.parse(item): the value, or that it throws a SyntaxError
JSONparse(item) ==
  IF Len(item) >= 2 /\ Char(item, 1) = Quote /\ Char(item, Len(item)) = Quote
       /\ IndexOf(SubSeq(item, 2, Len(item) - 1), Quote) = 0
  THEN [throws |-> FALSE, value |-> String(SubSeq(item, 2, Len(item) - 1))]
  ELSE IF item = "true" THEN [throws |-> FALSE, value |-> Boolean(TRUE)]
  ELSE IF item = "false" THEN [throws |-> FALSE, value |-> Boolean(FALSE)]
  ELSE IF IsDigits(item) /\ (Len(item) = 1 \/ Char(item, 1) # "0")
  THEN [throws |-> FALSE, value |-> Number(StringToNumber(item))]
  ELSE [throws |-> TRUE, value |-> String("")]

saveToLocalStorageLost(storage, key, data, setItemThrows) == storage

\* localStorage.setItem(key, JSON.stringify(data)) inside try / catch
saveToLocalStorage(storage, key, data, setItemThrows) ==
  IF setItemThrows THEN storage
  ELSE [storage EXCEPT ![key] = <<JSONstringify(data)>>]

\* item ? JSON.parse(item) : defaultValue inside try / catch (getItem gives
\* null for a key without an item; null and "" are falsy)
loadFromLocalStorage(storage, key, defaultValue) ==
  LET item == storage[key]
  IN IF item = <<>> \/ item[1] = "" THEN defaultValue
     ELSE IF JSONparse(item[1]).throws THEN defaultValue
     ELSE JSONparse(item[1]).value

\* the keys of the persisted preferences and their stated defaults
Keys == {"theme", "sidebarCollapsed", "viewMode", "enableAnimations", "itemsPerPage",
         "isDragDropEnabled"}

DefaultItemsPerPage == 12

Defaults ==
  [theme |-> String("system"), sidebarCollapsed |-> Boolean(FALSE), viewMode |-> String("grid"),
   enableAnimations |-> Boolean(TRUE), itemsPerPage |-> Number(DefaultItemsPerPage),
   isDragDropEnabled |-> Boolean(TRUE)]

NoItems == [key \in Keys |-> <<>>]

\* ---------------------------------------------------------------- Init
\* module load: mockData draws the seed ids (all in the millisecond of the
\* load; ids are only ever compared for equality, so the first random draw is
\* taken to be 0), api.ts copies the seed, the store starts empty
Loaded(rnd) ==
  /\ clock = StartTime
  /\ unread = FALSE
  /\ mockTasks = [i \in 1..NumSeed |->
                    [id |-> generateId(StartTime, rnd[i]),
                     title |-> SeedData[i].title,
                     description |-> SeedData[i].description,
                     status |-> SeedData[i].status,
                     createdAt |-> SeedData[i].createdAt,
                     updatedAt |-> SeedData[i].updatedAt]]
  /\ tasks = mockTasks
  /\ assigned = Ids(mockTasks)
  /\ reused = (Cardinality(Ids(mockTasks)) < NumSeed)
  /\ storeTasks = <<>>
  /\ isLoading = FALSE
  /\ error = Undefined
  /\ pending = <<>>
  /\ calls = 0
  /\ last = Idle
  /\ filterStatus = "all"
  /\ searchQuery = ""
  /\ sortField = "createdAt"
  /\ sortDirection = "desc"

\* no utility function has been applied
NoResult == [fn |-> "none", tasks |-> <<>>, direction |-> "none",
             stats |-> [total |-> 0, pending |-> 0, inProgress |-> 0, completed |-> 0,
                        completionRate |-> 0]]

NoArgs == [tasks |-> <<>>, statusFilter |-> "all", searchQuery |-> "", field |-> "createdAt"]

UtilsIdle == args = NoArgs /\ result = NoResult

\* no uiActions call has been made
UiIdle == [op |-> "none", theme |-> "system", isSelectMode |-> FALSE, run |-> 0,
           start |-> "system", given |-> <<>>, id |-> <<>>, nth |-> 0, at |-> 0,
           notifications |-> <<>>, modal |-> FALSE, raised |-> FALSE]

\* the session state of uiStore.ts at module load
UiFresh ==
  /\ isCreateModalOpen = FALSE
  /\ isEditModalOpen = FALSE
  /\ isDeleteModalOpen = FALSE
  /\ editingTask = <<>>
  /\ deletingTask = <<>>
  /\ theme = "system"
  /\ notifications = <<>>
  /\ timers = <<>>
  /\ selectedTaskIds = {}
  /\ isSelectMode = FALSE
  /\ added = 0
  /\ uiLast = UiIdle

\* the preference stores with their stated defaults, nothing stored
PrefsDefault ==
  /\ localStorage = NoItems
  /\ storageFull = FALSE
  /\ sidebarCollapsed = Defaults.sidebarCollapsed.bool
  /\ viewMode = Defaults.viewMode.str
  /\ enableAnimations = Defaults.enableAnimations.bool
  /\ itemsPerPage = Defaults.itemsPerPage.num
  /\ isDragDropEnabled = Defaults.isDragDropEnabled.bool

\* uiStore.ts at module load, outside the browser
UiLoaded ==
  /\ UiFresh
  /\ PrefsDefault
  /\ browser = FALSE
  /\ running = TRUE

Init ==
  /\ \E rnd \in {r \in [1..NumSeed -> Rand] : r[1] = 0} : Loaded(rnd)
  /\ UtilsIdle
  /\ UiLoaded

\* ------------------------------------------------------------- actions
\* the millisecond changes.  Only the order of the instants is observable,
\* and only by a call that resumes: so time is followed while a call is in
\* flight, and two changes with no step between them count as one
Tick ==
  /\ pending # <<>>
  /\ ~unread
  /\ clock' = clock + 1
  /\ unread' = TRUE
  /\ last' = Idle
  /\ UNCHANGED <<mockTasks, tasks, assigned, reused, storeTasks, isLoading, error, pending, calls>>
  /\ UNCHANGED <<utilVars, viewVars, prefVars, uiVars>>

\* the head of every taskActions method: isLoading.set(true); error.set(null);
\* then the facade call, which awaits its delay
Issue(op) ==
  /\ calls < MaxCalls
  /\ calls' = calls + 1
  /\ pending' = Append(pending, Waiting(op, clock, assigned))
  /\ isLoading' = TRUE
  /\ error' = Undefined
  /\ unread' = FALSE
  /\ last' = Idle
  /\ UNCHANGED <<clock, mockTasks, tasks, assigned, reused, storeTasks>>
  /\ UNCHANGED <<utilVars, viewVars, prefVars, uiVars>>

LoadTasks == Issue("loadTasks")

CreateTask == Issue("createTask")

UpdateTask == Issue("updateTask")

DeleteTask == Issue("deleteTask")

BulkUpdateTasks == Issue("bulkUpdateTasks")

BulkDeleteTasks == Issue("bulkDeleteTasks")

\* TaskAPI.getTask(id) called directly (the store has no action for it)
GetTask ==
  /\ calls < MaxCalls
  /\ calls' = calls + 1
  /\ pending' = Append(pending, Waiting("getTask", clock, assigned))
  /\ unread' = FALSE
  /\ last' = Idle
  /\ UNCHANGED <<clock, mockTasks, tasks, assigned, reused, storeTasks, isLoading, error>>
  /\ UNCHANGED <<utilVars, viewVars, prefVars, uiVars>>

\* a tail whose isLoading.set(false) follows the try/catch instead of
\* standing in a finally branch: a fault leaves the flag as it was
FinishNoFinally(i, call, out, threw, ret, st, err) ==
  /\ pending' = Remove(pending, i)
  /\ tasks' = out.tasks
  /\ storeTasks' = st
  /\ error' = err
  /\ isLoading' = (threw /\ isLoading)
  /\ last' = Step(call, out.resp, threw, ret, clock, tasks, storeTasks)
  /\ unread' = FALSE
  /\ UNCHANGED <<mockTasks, calls>>
  /\ UNCHANGED <<utilVars, viewVars, prefVars, uiVars>>

\* the tail of every taskActions method: the result applied to the store,
\* then the finally branch
Finish(i, call, out, threw, ret, st, err) ==
  /\ pending' = Remove(pending, i)
  /\ tasks' = out.tasks
  /\ storeTasks' = st
  /\ error' = err
  /\ isLoading' = FALSE
  /\ last' = Step(call, out.resp, threw, ret, clock, tasks, storeTasks)
  /\ unread' = FALSE
  /\ UNCHANGED <<mockTasks, calls>>
  /\ UNCHANGED <<utilVars, viewVars, prefVars, uiVars>>

\* loadTasks after its await
LoadTasksDone == \E i \in 1..Len(pending) :
  /\ CanResume(i, "loadTasks")
  /\ LET call == Call("loadTasks", BogusId, <<>>, <<>>, pending[i].at)
         out == getTasks(tasks)
     IN Finish(i, call, out, FALSE, Returned("undefined", <<>>, 0), out.resp.data, error)
  /\ UNCHANGED <<clock, assigned, reused>>

\* createTask after its await: generateId() reads the clock, then new Date()
\* is read twice; the millisecond may have changed at the second reading
CreateTaskDone == \E i \in 1..Len(pending) :
  /\ CanResume(i, "createTask")
  /\ \E taskData \in CreateInputs, rnd \in Rand, d \in 0..1 :
       LET call == Call("createTask", BogusId, taskData, <<>>, pending[i].at)
           id == generateId(clock, rnd)
           out == createTask(tasks, taskData, id, clock, clock + d)
       IN /\ Finish(i, call, out, FALSE, Returned("task", out.resp.data, 0),
                    StorePrepend(storeTasks, out.resp.data[1]), error)
          /\ assigned' = assigned \cup {id}
          /\ reused' = (reused \/ id \in assigned)
          /\ clock' = clock + d

\* updateTask after its await
UpdateTaskDone == \E i \in 1..Len(pending) :
  /\ CanResume(i, "updateTask")
  /\ \E id \in CallIds(i), updateData \in UpdateInputs :
       LET call == Call("updateTask", id, updateData, <<>>, pending[i].at)
           out == updateTask(tasks, id, updateData, clock)
       IN IF out.resp.success
          THEN Finish(i, call, out, FALSE, Returned("task", out.resp.data, 0),
                      StoreReplace(storeTasks, id, out.resp.data[1]), error)
          ELSE Finish(i, call, out, FALSE, FailureReturn(call.op), storeTasks,
                      MessageOr(out.resp.message, Fallback(call.op)))
  /\ UNCHANGED <<clock, assigned, reused>>

\* deleteTask after its await
DeleteTaskDone == \E i \in 1..Len(pending) :
  /\ CanResume(i, "deleteTask")
  /\ \E id \in CallIds(i) :
       LET call == Call("deleteTask", id, <<>>, <<>>, pending[i].at)
           out == deleteTask(tasks, id)
       IN IF out.resp.success
          THEN Finish(i, call, out, FALSE, Returned("true", <<>>, 0),
                      StoreRemove(storeTasks, id), error)
          ELSE Finish(i, call, out, FALSE, FailureReturn(call.op), storeTasks,
                      MessageOr(out.resp.message, Fallback(call.op)))
  /\ UNCHANGED <<clock, assigned, reused>>

\* the clock readings of a loop of n passes that starts at instant c, the
\* millisecond changing after the passes in `late`
Readings(c, n, late) == [k \in 1..n |-> c + Cardinality({j \in late : j < k})]

\* bulkUpdateTasks after its await
BulkUpdateTasksDone == \E i \in 1..Len(pending) :
  /\ CanResume(i, "bulkUpdateTasks")
  /\ \E updates \in Lists([id : CallIds(i), data : UpdateInputs]) :
     \E late \in SUBSET (1..(Len(updates) - 1)) :
       LET call == Call("bulkUpdateTasks", BogusId, <<>>, updates, pending[i].at)
           out == bulkUpdateTasks(tasks, updates, Readings(clock, Len(updates), late))
       IN /\ Finish(i, call, out, FALSE, Returned("tasks", out.resp.data, 0),
                    StoreMerge(storeTasks, out.resp.data), error)
          /\ clock' = clock + Cardinality(late)
  /\ UNCHANGED <<assigned, reused>>

\* bulkDeleteTasks after its await
BulkDeleteTasksDone == \E i \in 1..Len(pending) :
  /\ CanResume(i, "bulkDeleteTasks")
  /\ \E ids \in Lists(CallIds(i)) :
       LET call == Call("bulkDeleteTasks", BogusId, <<>>, ids, pending[i].at)
           out == bulkDeleteTasks(tasks, ids)
       IN Finish(i, call, out, FALSE, Returned("count", <<>>, out.resp.deletedCount),
                 StoreRemoveAll(storeTasks, ids), error)
  /\ UNCHANGED <<clock, assigned, reused>>

\* TaskAPI.getTask after its await
GetTaskDone == \E i \in 1..Len(pending) :
  /\ CanResume(i, "getTask")
  /\ \E id \in CallIds(i) :
       LET call == Call("getTask", id, <<>>, <<>>, pending[i].at)
           out == getTask(tasks, id)
       IN /\ pending' = Remove(pending, i)
          /\ last' = Step(call, out.resp, FALSE, Returned("none", <<>>, 0), clock,
                          tasks, storeTasks)
          /\ unread' = FALSE
  /\ UNCHANGED <<clock, mockTasks, tasks, assigned, reused, storeTasks, isLoading, error, calls>>
  /\ UNCHANGED <<utilVars, viewVars, prefVars, uiVars>>

\* the facade call of a store action rejects (an unexpected fault): the
\* catch branch, then finally
FacadeThrows == \E i \in 1..Len(pending), op \in StoreOps :
  /\ CanResume(i, op)
  /\ Finish(i, Call(op, BogusId, <<>>, <<>>, pending[i].at), Outcome(tasks, NoResponse),
            TRUE, FailureReturn(op), storeTasks, NetworkError(op))
  /\ UNCHANGED <<clock, assigned, reused>>

\* the facade call of a store action resolves to a result with success=false
\* (a facade substituted as in taskStore.test.ts): the else branch, then finally
FacadeFails == \E i \in 1..Len(pending), op \in StoreOps, message \in FailureMessages :
  /\ CanResume(i, op)
  /\ Finish(i, Call(op, BogusId, <<>>, <<>>, pending[i].at),
            Outcome(tasks, Response(<<>>, FALSE, message, 0)), FALSE,
            FailureReturn(op), storeTasks, MessageOr(message, Fallback(op)))
  /\ UNCHANGED <<clock, assigned, reused>>

\* TaskAPI.resetData(): synchronous
ResetData ==
  /\ tasks' = resetData(mockTasks)
  /\ last' = [Idle EXCEPT !.op = "resetData", !.prevTasks = tasks]
  /\ UNCHANGED <<clock, unread, mockTasks, assigned, reused, storeTasks, isLoading, error,
                 pending, calls>>
  /\ UNCHANGED <<utilVars, viewVars, prefVars, uiVars>>

Next ==
  \/ Tick
  \/ LoadTasks
  \/ CreateTask
  \/ UpdateTask
  \/ DeleteTask
  \/ BulkUpdateTasks
  \/ BulkDeleteTasks
  \/ GetTask
  \/ LoadTasksDone
  \/ CreateTaskDone
  \/ UpdateTaskDone
  \/ DeleteTaskDone
  \/ BulkUpdateTasksDone
  \/ BulkDeleteTasksDone
  \/ GetTaskDone
  \/ ResetData

\* the store on a facade that may fail
NextFault ==
  \/ Next
  \/ FacadeThrows
  \/ FacadeFails

Spec == Init /\ [][Next]_vars

SpecFault == Init /\ [][NextFault]_vars

\* ------------------------------------- the utility functions applied
\* the tasks of the utils tests, and one more whose title, status and dates
\* tie with theirs
UtilTasks ==
  { [id |-> <<0, 1>>, title |-> "First Task", description |-> "Description one",
     status |-> "pending", createdAt |-> 1, updatedAt |-> 1],
    [id |-> <<0, 2>>, title |-> "Second Task", description |-> "Description two",
     status |-> "in-progress", createdAt |-> 2, updatedAt |-> 2],
    [id |-> <<0, 3>>, title |-> "Third Task", description |-> Undefined,
     status |-> "completed", createdAt |-> 3, updatedAt |-> 3],
    [id |-> <<0, 4>>, title |-> "first task", description |-> Undefined,
     status |-> "pending", createdAt |-> 2, updatedAt |-> 3] }

StatusFilters == {"all", "pending", "in-progress", "completed"}

SearchQueries == {"", "First", "FIRST", "two", "nonexistent"}

SortFields == {"title", "createdAt", "updatedAt", "status"}

SortDirections == {"asc", "desc"}

UtilInputs ==
  [tasks : UNION {[1..n -> UtilTasks] : n \in 0..MaxList},
   statusFilter : StatusFilters,
   searchQuery : SearchQueries,
   field : SortFields]

InitUtils ==
  /\ Loaded([i \in 1..NumSeed |-> (i - 1) % (RandMax + 1)])
  /\ UiLoaded
  /\ args \in UtilInputs
  /\ result = NoResult

\* filterTasks(tasks, statusFilter, searchQuery)
FilterTasks ==
  /\ result' = [NoResult EXCEPT !.fn = "filterTasks",
                  !.tasks = filterTasks(args.tasks, args.statusFilter, args.searchQuery)]
  /\ UNCHANGED <<args, taskVars, uiVars, viewVars, prefVars>>

\* sortTasks(tasks, field, direction)
SortTasks == \E direction \in SortDirections :
  /\ result' = [NoResult EXCEPT !.fn = "sortTasks", !.direction = direction,
                  !.tasks = sortTasks(args.tasks, args.field, direction)]
  /\ UNCHANGED <<args, taskVars, uiVars, viewVars, prefVars>>

NextUtils ==
  \/ FilterTasks
  \/ SortTasks

SpecUtils == InitUtils /\ [][NextUtils]_vars

\* ------------------------------------------ the statistics of a store
\* a collection of c completed, p pending and i in-progress tasks
Collection(c, p, i) ==
  [k \in 1..(c + p + i) |->
     [id |-> <<0, k>>, title |-> "First Task", description |-> Undefined,
      status |-> IF k <= c THEN "completed" ELSE IF k <= c + p THEN "pending" ELSE "in-progress",
      createdAt |-> k, updatedAt |-> k]]

StatsInputs ==
  {[NoArgs EXCEPT !.tasks = Collection(c, p, n - c - p)] :
     <<n, c, p>> \in {x \in (0..MaxStatsTasks) \X (0..MaxStatsTasks) \X (0..MaxStatsTasks) :
                        x[2] + x[3] <= x[1]}}

InitStats ==
  /\ Loaded([i \in 1..NumSeed |-> (i - 1) % (RandMax + 1)])
  /\ UiLoaded
  /\ args \in StatsInputs
  /\ result = NoResult

\* tasks.set(...) with a collection: the derived store taskStats follows
TaskStats ==
  /\ storeTasks' = args.tasks
  /\ result' = [NoResult EXCEPT !.fn = "taskStats", !.stats = taskStats(storeTasks')]
  /\ UNCHANGED <<clock, unread, mockTasks, tasks, assigned, reused, isLoading, error, pending,
                 calls, last>>
  /\ UNCHANGED <<args, uiVars, viewVars, prefVars>>

NextStats ==
  \/ TaskStats

SpecStats == InitStats /\ [][NextStats]_vars

\* a call whose delay has elapsed is resumed: timers fire and the event loop
\* runs the continuation
Resume ==
  \/ LoadTasksDone
  \/ CreateTaskDone
  \/ UpdateTaskDone
  \/ DeleteTaskDone
  \/ BulkUpdateTasksDone
  \/ BulkDeleteTasksDone
  \/ GetTaskDone
  \/ FacadeThrows
  \/ FacadeFails

\* time passes, and every timer that is due fires
SpecFaultFair == SpecFault /\ WF_vars(Tick) /\ WF_vars(Resume)

\* the page after onMount: taskActions.loadTasks() has resolved, the store
\* holds the facade's collection
InitMounted ==
  /\ \E rnd \in {[i \in 1..NumSeed |-> (i - 1) % (RandMax + 1)]} :
       LET module == [i \in 1..NumSeed |->
                        [id |-> generateId(StartTime, rnd[i]),
                         title |-> SeedData[i].title,
                         description |-> SeedData[i].description,
                         status |-> SeedData[i].status,
                         createdAt |-> SeedData[i].createdAt,
                         updatedAt |-> SeedData[i].updatedAt]]
       IN /\ mockTasks = module
          /\ tasks = module
          /\ storeTasks = getTasks(module).resp.data
          /\ assigned = Ids(module)
          /\ reused = (Cardinality(Ids(module)) < NumSeed)
  /\ clock = StartTime + DelayGetTasks
  /\ unread = FALSE
  /\ isLoading = FALSE
  /\ error = Undefined
  /\ pending = <<>>
  /\ calls = 0
  /\ last = Idle
  /\ filterStatus = "all"
  /\ searchQuery = ""
  /\ sortField = "createdAt"
  /\ sortDirection = "desc"
  /\ UtilsIdle
  /\ UiLoaded

\* the store's operations on the mounted page; resetData is for the tests
NextMounted ==
  \/ Tick
  \/ LoadTasks
  \/ CreateTask
  \/ UpdateTask
  \/ DeleteTask
  \/ BulkUpdateTasks
  \/ BulkDeleteTasks
  \/ LoadTasksDone
  \/ CreateTaskDone
  \/ UpdateTaskDone
  \/ DeleteTaskDone
  \/ BulkUpdateTasksDone
  \/ BulkDeleteTasksDone

SpecMounted == InitMounted /\ [][NextMounted]_vars

\* ------------------------------------------------- uiStore: uiActions
\* what a uiActions call leaves in uiLast: its name and the theme, the
\* selection mode and the notifications it found
Did(op) == [UiIdle EXCEPT !.op = op, !.theme = theme, !.isSelectMode = isSelectMode,
                          !.notifications = notifications]

modalVars == <<isCreateModalOpen, isEditModalOpen, isDeleteModalOpen, editingTask, deletingTask>>

selectionVars == <<selectedTaskIds, isSelectMode>>

notificationVars == <<notifications, timers, added>>

\* the tasks the page hands to openEditModal and openDeleteModal
ShownTasks == {mockTasks[i] : i \in 1..NumSeed}

OpenCreateModal ==
  /\ isCreateModalOpen' = TRUE
  /\ uiLast' = Did("openCreateModal")
  /\ UNCHANGED <<isEditModalOpen, isDeleteModalOpen, editingTask, deletingTask>>
  /\ UNCHANGED <<taskVars, utilVars, viewVars, prefVars, theme, selectionVars, notificationVars>>

CloseCreateModal ==
  /\ isCreateModalOpen' = FALSE
  /\ uiLast' = Did("closeCreateModal")
  /\ UNCHANGED <<isEditModalOpen, isDeleteModalOpen, editingTask, deletingTask>>
  /\ UNCHANGED <<taskVars, utilVars, viewVars, prefVars, theme, selectionVars, notificationVars>>

OpenEditModal ==
  \E task \in ShownTasks :
    /\ editingTask' = <<task>>
    /\ isEditModalOpen' = TRUE
    /\ uiLast' = Did("openEditModal")
    /\ UNCHANGED <<isCreateModalOpen, isDeleteModalOpen, deletingTask>>
    /\ UNCHANGED <<taskVars, utilVars, viewVars, prefVars, theme, selectionVars, notificationVars>>

CloseEditModalKeepsTask ==
  /\ isEditModalOpen' = FALSE
  /\ uiLast' = Did("closeEditModal")
  /\ UNCHANGED <<isCreateModalOpen, isDeleteModalOpen, editingTask, deletingTask>>
  /\ UNCHANGED <<taskVars, utilVars, viewVars, prefVars, theme, selectionVars, notificationVars>>

CloseEditModal ==
  /\ editingTask' = <<>>
  /\ isEditModalOpen' = FALSE
  /\ uiLast' = Did("closeEditModal")
  /\ UNCHANGED <<isCreateModalOpen, isDeleteModalOpen, deletingTask>>
  /\ UNCHANGED <<taskVars, utilVars, viewVars, prefVars, theme, selectionVars, notificationVars>>

OpenDeleteModal ==
  \E task \in ShownTasks :
    /\ deletingTask' = <<task>>
    /\ isDeleteModalOpen' = TRUE
    /\ uiLast' = Did("openDeleteModal")
    /\ UNCHANGED <<isCreateModalOpen, isEditModalOpen, editingTask>>
    /\ UNCHANGED <<taskVars, utilVars, viewVars, prefVars, theme, selectionVars, notificationVars>>

CloseDeleteModal ==
  /\ deletingTask' = <<>>
  /\ isDeleteModalOpen' = FALSE
  /\ uiLast' = Did("closeDeleteModal")
  /\ UNCHANGED <<isCreateModalOpen, isEditModalOpen, editingTask>>
  /\ UNCHANGED <<taskVars, utilVars, viewVars, prefVars, theme, selectionVars, notificationVars>>

CloseAllModals ==
  /\ isCreateModalOpen' = FALSE
  /\ isEditModalOpen' = FALSE
  /\ isDeleteModalOpen' = FALSE
  /\ editingTask' = <<>>
  /\ deletingTask' = <<>>
  /\ uiLast' = Did("closeAllModals")
  /\ UNCHANGED <<taskVars, utilVars, viewVars, prefVars, theme, selectionVars, notificationVars>>

Themes == {"light", "dark", "system"}

\* a store's subscriber, run when the store's value changes in the browser:
\* saveToLocalStorage(key, value)
WriteThrough(key, old, new) ==
  localStorage' = IF browser /\ old # new
                  THEN saveToLocalStorage(localStorage, key, new, storageFull)
                  ELSE localStorage

SetTheme ==
  \E newTheme \in Themes :
    /\ running
    /\ theme' = newTheme
    /\ WriteThrough("theme", String(theme), String(theme'))
    /\ uiLast' = [UiIdle EXCEPT !.op = "setTheme"]
    /\ UNCHANGED <<taskVars, utilVars, viewVars, modalVars, selectionVars, notificationVars>>
    /\ UNCHANGED <<browser, running, storageFull, sidebarCollapsed, viewMode, enableAnimations,
                   itemsPerPage, isDragDropEnabled>>

toggleThemeTwoWay(current) == IF current = "light" THEN "dark" ELSE "light"

\* theme.update(current => ...)
toggleTheme(current) ==
  IF current = "light" THEN "dark"
  ELSE IF current = "dark" THEN "system"
  ELSE "light"

\* uiLast counts the toggles made one after the other (run), up to three,
\* and keeps the theme the first of them found (start)
ToggleTheme ==
  LET more == uiLast.op = "toggleTheme" /\ uiLast.run < 3
  IN /\ running
     /\ theme' = toggleTheme(theme)
     /\ WriteThrough("theme", String(theme), String(theme'))
     /\ uiLast' = [Did("toggleTheme") EXCEPT
                     !.run = IF more THEN uiLast.run + 1 ELSE 1,
                     !.start = IF more THEN uiLast.start ELSE theme]
     /\ UNCHANGED <<taskVars, utilVars, viewVars, modalVars, selectionVars, notificationVars>>
     /\ UNCHANGED <<browser, running, storageFull, sidebarCollapsed, viewMode, enableAnimations,
                    itemsPerPage, isDragDropEnabled>>

\* if (!isSelectMode): isSelectMode is the store, an object, so the test is
\* of a value that is never falsy and the branch is never taken
Falsy(store) == FALSE

ToggleSelectMode ==
  /\ isSelectMode' = ~isSelectMode
  /\ selectedTaskIds' = IF Falsy("isSelectMode") THEN {} ELSE selectedTaskIds
  /\ uiLast' = Did("toggleSelectMode")
  /\ UNCHANGED <<taskVars, utilVars, viewVars, prefVars, modalVars, theme, notificationVars>>

SelectTask ==
  \E taskId \in Ids(mockTasks) :
    /\ selectedTaskIds' = IF taskId \in selectedTaskIds THEN selectedTaskIds \ {taskId}
                          ELSE selectedTaskIds \cup {taskId}
    /\ uiLast' = Did("selectTask")
    /\ UNCHANGED <<taskVars, utilVars, viewVars, prefVars, modalVars, theme, isSelectMode, notificationVars>>

SelectAllTasks ==
  \E taskIds \in SUBSET Ids(mockTasks) :
    /\ selectedTaskIds' = taskIds
    /\ uiLast' = Did("selectAllTasks")
    /\ UNCHANGED <<taskVars, utilVars, viewVars, prefVars, modalVars, theme, isSelectMode, notificationVars>>

ClearSelection ==
  /\ selectedTaskIds' = {}
  /\ uiLast' = Did("clearSelection")
  /\ UNCHANGED <<taskVars, utilVars, viewVars, prefVars, modalVars, theme, isSelectMode, notificationVars>>

NextUi ==
  \/ OpenCreateModal
  \/ CloseCreateModal
  \/ OpenEditModal
  \/ CloseEditModal
  \/ OpenDeleteModal
  \/ CloseDeleteModal
  \/ CloseAllModals
  \/ SetTheme
  \/ ToggleTheme
  \/ ToggleSelectMode
  \/ SelectTask
  \/ SelectAllTasks
  \/ ClearSelection

InitUi ==
  /\ Loaded([i \in 1..NumSeed |-> (i - 1) % (RandMax + 1)])
  /\ UtilsIdle
  /\ UiLoaded

SpecUi == InitUi /\ [][NextUi]_vars

\* ------------------------------------------- uiStore: notifications
\* Number.prototype.toString(): the decimal digits
RECURSIVE toString(_)
toString(n) == IF n < 10 THEN <<n>> ELSE toString(n \div 10) \o <<n % 10>>

\* the duration a caller gives: none (<<>>), 0, or a short one
Durations == {<<>>, <<0>>, <<ShortDuration>>}

\* a notification object carries, besides the fields the code gives it (id,
\* duration), which call of addNotification made it (nth): two objects with
\* the same fields are still two objects
AddNotification ==
  \E given \in Durations :
    LET id == toString(clock)
        duration == IF given = <<>> THEN DefaultDuration ELSE given[1]
        newNotification == [id |-> id, duration |-> duration, nth |-> added + 1]
    IN /\ added < MaxAdds
       /\ added' = added + 1
       /\ notifications' = Append(notifications, newNotification)
       /\ timers' = IF duration # 0 /\ duration > 0
                    THEN Append(timers, [id |-> id, due |-> clock + duration, nth |-> added + 1])
                    ELSE timers
       /\ uiLast' = [Did("addNotification") EXCEPT !.given = given, !.id = id,
                                                    !.nth = added + 1, !.at = clock]
       /\ UNCHANGED <<taskVars, utilVars, viewVars, prefVars, modalVars, theme, selectionVars>>

\* current.filter(n => n.id !== id)
removeNotification(current, id) == SelectSeq(current, LAMBDA n : n.id # id)

\* the page dismisses a notification it shows
RemoveNotification ==
  \E k \in 1..Len(notifications) :
    /\ notifications' = removeNotification(notifications, notifications[k].id)
    /\ uiLast' = [Did("removeNotification") EXCEPT !.id = notifications[k].id, !.at = clock]
    /\ UNCHANGED <<taskVars, utilVars, viewVars, prefVars, modalVars, theme, selectionVars, timers, added>>

ClearAllNotifications ==
  /\ notifications' = <<>>
  /\ uiLast' = [Did("clearAllNotifications") EXCEPT !.at = clock]
  /\ UNCHANGED <<taskVars, utilVars, viewVars, prefVars, modalVars, theme, selectionVars, timers, added>>

\* the setTimeout callback of addNotification: the timers that are due run in
\* the order of their due times, then in the order they were set
TimerFires ==
  \E k \in 1..Len(timers) :
    /\ timers[k].due <= clock
    /\ \A j \in 1..Len(timers) :
         j # k => (timers[k].due < timers[j].due \/ (timers[k].due = timers[j].due /\ k < j))
    /\ notifications' = removeNotification(notifications, timers[k].id)
    /\ timers' = Remove(timers, k)
    /\ uiLast' = [Did("timer") EXCEPT !.id = timers[k].id, !.nth = timers[k].nth, !.at = clock]
    /\ UNCHANGED <<taskVars, utilVars, viewVars, prefVars, modalVars, theme, selectionVars, added>>

\* time passes: to the next instant, or to an instant at which a timer is due
Elapse ==
  /\ clock' \in {timers[k].due : k \in {j \in 1..Len(timers) : timers[j].due > clock}}
                  \cup (IF clock < StartTime + MaxLate THEN {clock + 1} ELSE {})
  /\ uiLast' = Did("none")
  /\ UNCHANGED <<unread, mockTasks, tasks, assigned, reused, storeTasks, isLoading, error,
                 pending, calls, last>>
  /\ UNCHANGED <<utilVars, viewVars, prefVars, modalVars, theme, selectionVars, notificationVars>>

NextNotify ==
  \/ AddNotification
  \/ RemoveNotification
  \/ ClearAllNotifications
  \/ TimerFires
  \/ Elapse

SpecNotify == InitUi /\ [][NextNotify]_vars

\* ------------------------------------- uiStore: persisted preferences
\* the current values of the preference stores
Prefs ==
  [theme |-> String(theme), sidebarCollapsed |-> Boolean(sidebarCollapsed),
   viewMode |-> String(viewMode), enableAnimations |-> Boolean(enableAnimations),
   itemsPerPage |-> Number(itemsPerPage), isDragDropEnabled |-> Boolean(isDragDropEnabled)]

sessionVars == <<modalVars, selectionVars, notificationVars>>

ToggleSidebar ==
  /\ running
  /\ sidebarCollapsed' = ~sidebarCollapsed
  /\ WriteThrough("sidebarCollapsed", Boolean(sidebarCollapsed), Boolean(sidebarCollapsed'))
  /\ uiLast' = UiIdle
  /\ UNCHANGED <<taskVars, utilVars, viewVars, sessionVars, theme>>
  /\ UNCHANGED <<browser, running, storageFull, viewMode, enableAnimations, itemsPerPage,
                 isDragDropEnabled>>

ViewModes == {"grid", "list"}

SetViewMode ==
  \E mode \in ViewModes :
    /\ running
    /\ viewMode' = mode
    /\ WriteThrough("viewMode", String(viewMode), String(viewMode'))
    /\ uiLast' = UiIdle
    /\ UNCHANGED <<taskVars, utilVars, viewVars, sessionVars, theme>>
    /\ UNCHANGED <<browser, running, storageFull, sidebarCollapsed, enableAnimations,
                   itemsPerPage, isDragDropEnabled>>

ToggleViewMode ==
  /\ running
  /\ viewMode' = IF viewMode = "grid" THEN "list" ELSE "grid"
  /\ WriteThrough("viewMode", String(viewMode), String(viewMode'))
  /\ uiLast' = UiIdle
  /\ UNCHANGED <<taskVars, utilVars, viewVars, sessionVars, theme>>
  /\ UNCHANGED <<browser, running, storageFull, sidebarCollapsed, enableAnimations,
                 itemsPerPage, isDragDropEnabled>>

ToggleDragDrop ==
  /\ running
  /\ isDragDropEnabled' = ~isDragDropEnabled
  /\ WriteThrough("isDragDropEnabled", Boolean(isDragDropEnabled),
                  Boolean(isDragDropEnabled'))
  /\ uiLast' = UiIdle
  /\ UNCHANGED <<taskVars, utilVars, viewVars, sessionVars, theme>>
  /\ UNCHANGED <<browser, running, storageFull, sidebarCollapsed, viewMode, enableAnimations,
                 itemsPerPage>>

SetDragDropEnabled ==
  \E enabled \in BOOLEAN :
    /\ running
    /\ isDragDropEnabled' = enabled
    /\ WriteThrough("isDragDropEnabled", Boolean(isDragDropEnabled),
                    Boolean(isDragDropEnabled'))
    /\ uiLast' = UiIdle
    /\ UNCHANGED <<taskVars, utilVars, viewVars, sessionVars, theme>>
    /\ UNCHANGED <<browser, running, storageFull, sidebarCollapsed, viewMode, enableAnimations,
                   itemsPerPage>>

\* what the view handlers leave alone of the facade and the store
facadeVars == <<clock, unread, mockTasks, tasks, assigned, reused, isLoading, error, pending, calls>>

\* FilterBar's handleSortChange(field) and the page's handler of its
\* sortChange event: the same field toggles the direction, a new field
\* starts at desc
HandleSortChange ==
  \E field \in SortFields :
    /\ running
    /\ sortField' = field
    /\ sortDirection' = IF field = sortField
                        THEN (IF sortDirection = "asc" THEN "desc" ELSE "asc")
                        ELSE "desc"
    /\ last' = Idle
    /\ uiLast' = UiIdle
    /\ UNCHANGED <<facadeVars, storeTasks, utilVars, filterStatus, searchQuery, sessionVars,
                   theme, prefVars>>

\* the page is closed: the module state is gone, localStorage stays (the
\* stores' last values are kept here for comparison at the next start)
Close ==
  /\ running
  /\ browser
  /\ running' = FALSE
  /\ uiLast' = UiIdle
  /\ UNCHANGED <<taskVars, utilVars, viewVars, sessionVars, theme>>
  /\ UNCHANGED <<browser, localStorage, storageFull, sidebarCollapsed, viewMode,
                 enableAnimations, itemsPerPage, isDragDropEnabled>>

\* what the user or another page can leave under a key while the page is
\* closed: no item, or text that is no JSON
Damage == {<<>>, <<"invalid json">>}

Tamper ==
  \E key \in Keys, item \in Damage :
    /\ ~running
    /\ uiLast.op # "tamper"
    /\ localStorage' = [localStorage EXCEPT ![key] = item]
    /\ uiLast' = [UiIdle EXCEPT !.op = "tamper"]
    /\ UNCHANGED <<taskVars, utilVars, viewVars, sessionVars, theme>>
    /\ UNCHANGED <<browser, running, storageFull, sidebarCollapsed, viewMode, enableAnimations,
                   itemsPerPage, isDragDropEnabled>>

\* the subscribers registered at module load run once with the loaded values
SaveAll(storage, values, setItemThrows) ==
  LET s1 == saveToLocalStorage(storage, "theme", values.theme, setItemThrows)
      s2 == saveToLocalStorage(s1, "sidebarCollapsed", values.sidebarCollapsed,
                               setItemThrows)
      s3 == saveToLocalStorage(s2, "viewMode", values.viewMode, setItemThrows)
      s4 == saveToLocalStorage(s3, "enableAnimations", values.enableAnimations,
                               setItemThrows)
      s5 == saveToLocalStorage(s4, "itemsPerPage", values.itemsPerPage, setItemThrows)
  IN saveToLocalStorage(s5, "isDragDropEnabled", values.isDragDropEnabled, setItemThrows)

\* a fresh start in the browser: uiStore.ts and taskStore.ts are evaluated
\* anew; every preference store is created from its item or its default and
\* its subscriber saves the value at once
Start ==
  \E setItemThrows \in BOOLEAN :
    LET loaded == [key \in Keys |-> loadFromLocalStorage(localStorage, key, Defaults[key])]
    IN /\ ~running
       /\ browser
       /\ running' = TRUE
       /\ theme' = loaded["theme"].str
       /\ sidebarCollapsed' = loaded["sidebarCollapsed"].bool
       /\ viewMode' = loaded["viewMode"].str
       /\ enableAnimations' = loaded["enableAnimations"].bool
       /\ itemsPerPage' = loaded["itemsPerPage"].num
       /\ isDragDropEnabled' = loaded["isDragDropEnabled"].bool
       /\ localStorage' = SaveAll(localStorage, loaded, setItemThrows)
       /\ storageFull' = setItemThrows
       /\ filterStatus' = "all"
       /\ searchQuery' = ""
       /\ sortField' = "createdAt"
       /\ sortDirection' = "desc"
       /\ isCreateModalOpen' = FALSE
       /\ isEditModalOpen' = FALSE
       /\ isDeleteModalOpen' = FALSE
       /\ editingTask' = <<>>
       /\ deletingTask' = <<>>
       /\ notifications' = <<>>
       /\ timers' = <<>>
       /\ selectedTaskIds' = {}
       /\ isSelectMode' = FALSE
       /\ uiLast' = [UiIdle EXCEPT !.op = "start"]
       /\ UNCHANGED <<taskVars, utilVars, added, browser>>

NextPrefs ==
  \/ SetTheme
  \/ ToggleSidebar
  \/ SetViewMode
  \/ ToggleViewMode
  \/ ToggleDragDrop
  \/ SetDragDropEnabled
  \/ Close
  \/ Tamper
  \/ Start

\* the browser before the first visit
InitPrefs ==
  /\ Loaded([i \in 1..NumSeed |-> (i - 1) % (RandMax + 1)])
  /\ UtilsIdle
  /\ UiFresh
  /\ PrefsDefault
  /\ browser = TRUE
  /\ running = FALSE

SpecPrefs == InitPrefs /\ [][NextPrefs]_vars

\* ------------------------------------- the page: filters, sorting, dragging
\* handleStatusFilter: filterStatus.set(event.detail)
HandleStatusFilter ==
  \E status \in StatusFilters :
    /\ running
    /\ filterStatus' = status
    /\ last' = Idle
    /\ uiLast' = UiIdle
    /\ UNCHANGED <<facadeVars, storeTasks, utilVars, searchQuery, sortField, sortDirection,
                   sessionVars, theme, prefVars>>

\* what the user types into the search box
ViewQueries == {"", "First"}

\* handleSearchChange: searchQuery.set(event.detail)
HandleSearchChange ==
  \E query \in ViewQueries :
    /\ running
    /\ searchQuery' = query
    /\ last' = Idle
    /\ uiLast' = UiIdle
    /\ UNCHANGED <<facadeVars, storeTasks, utilVars, filterStatus, sortField, sortDirection,
                   sessionVars, theme, prefVars>>

\* handleClearFilters: taskActions.resetFilters()
HandleClearFilters ==
  /\ running
  /\ filterStatus' = "all"
  /\ searchQuery' = ""
  /\ sortField' = "createdAt"
  /\ sortDirection' = "desc"
  /\ last' = Idle
  /\ uiLast' = UiIdle
  /\ UNCHANGED <<facadeVars, storeTasks, utilVars, sessionVars, theme, prefVars>>

NextSort ==
  \/ HandleStatusFilter
  \/ HandleSearchChange
  \/ HandleSortChange
  \/ HandleClearFilters
  \/ Close
  \/ Start

SpecSort == InitPrefs /\ [][NextSort]_vars

\* the derived store: filterTasks, then sortTasks
filteredTasksOf(ts) ==
  sortTasks(filterTasks(ts, filterStatus, searchQuery), sortField, sortDirection)

filteredTasks == filteredTasksOf(storeTasks)

\* Array.prototype.splice(start, 1) and splice(start, 0, item), indices from 0
SpliceOut(items, start) == SubSeq(items, 1, start) \o SubSeq(items, start + 2, Len(items))

SpliceIn(items, start, item) ==
  SubSeq(items, 1, start) \o <<item>> \o SubSeq(items, start + 1, Len(items))

\* DragDropList's onEnd: the displayed items with the dragged one moved
onEnd(items, oldIndex, newIndex) ==
  SpliceIn(SpliceOut(items, oldIndex), newIndex, items[oldIndex + 1])

\* taskActions.reorderTasks: tasks.set(reorderedTasks)
reorderTasks(current, reorderedTasks) == reorderedTasks

\* a drag ends on the list the page shows, and the page's handleTaskReorder
\* runs: reorderTasks with the event's items, then addNotification
HandleTaskReorder ==
  \E oldIndex, newIndex \in 0..(Len(filteredTasks) - 1) :
    LET reorderedItems == onEnd(filteredTasks, oldIndex, newIndex)
        id == toString(clock)
        newNotification == [id |-> id, duration |-> DefaultDuration, nth |-> added + 1]
    IN /\ running
       /\ isDragDropEnabled
       /\ oldIndex # newIndex
       /\ added < MaxAdds
       /\ storeTasks' = reorderTasks(storeTasks, reorderedItems)
       /\ last' = Step(Call("reorderTasks", BogusId,
                            [oldIndex |-> oldIndex, newIndex |-> newIndex],
                            reorderedItems, clock),
                       NoResponse, FALSE, Returned("none", <<>>, 0), clock, tasks, storeTasks)
       /\ added' = added + 1
       /\ notifications' = Append(notifications, newNotification)
       /\ timers' = Append(timers, [id |-> id, due |-> clock + DefaultDuration, nth |-> added + 1])
       /\ uiLast' = [Did("addNotification") EXCEPT !.id = id, !.nth = added + 1, !.at = clock]
       /\ UNCHANGED <<facadeVars, utilVars, viewVars, prefVars, modalVars, theme, selectionVars>>

\* the store holds the four tasks of UtilTasks, newest first
ViewTasks ==
  << [id |-> <<0, 3>>, title |-> "Third Task", description |-> Undefined,
      status |-> "completed", createdAt |-> 3, updatedAt |-> 3],
     [id |-> <<0, 2>>, title |-> "Second Task", description |-> "Description two",
      status |-> "in-progress", createdAt |-> 2, updatedAt |-> 2],
     [id |-> <<0, 4>>, title |-> "first task", description |-> Undefined,
      status |-> "pending", createdAt |-> 2, updatedAt |-> 3],
     [id |-> <<0, 1>>, title |-> "First Task", description |-> "Description one",
      status |-> "pending", createdAt |-> 1, updatedAt |-> 1] >>

InitView ==
  /\ Loaded([i \in 1..NumSeed |-> (i - 1) % (RandMax + 1)])
  /\ UtilsIdle
  /\ UiLoaded

\* tasks.set(...) with the collection the page is to show
SetTasks ==
  /\ storeTasks = <<>>
  /\ storeTasks' = ViewTasks
  /\ last' = Idle
  /\ uiLast' = UiIdle
  /\ UNCHANGED <<facadeVars, utilVars, viewVars, sessionVars, theme, prefVars>>

NextView ==
  \/ SetTasks
  \/ HandleStatusFilter
  \/ HandleSearchChange
  \/ HandleSortChange
  \/ HandleClearFilters
  \/ HandleTaskReorder

SpecView == InitView /\ [][NextView]_vars

\* ------------------------------------- the page: the modals' handlers
\* a modal's backdrop covers the page: no task card can be clicked
Covered == isCreateModalOpen \/ isEditModalOpen \/ isDeleteModalOpen

\* handleTaskEdit: openEditModal with a task the page shows
HandleTaskEdit ==
  \E k \in 1..Len(storeTasks) :
    /\ ~Covered
    /\ editingTask' = <<storeTasks[k]>>
    /\ isEditModalOpen' = TRUE
    /\ uiLast' = UiIdle
    /\ UNCHANGED <<isCreateModalOpen, isDeleteModalOpen, deletingTask>>
    /\ UNCHANGED <<taskVars, utilVars, viewVars, prefVars, theme, selectionVars, notificationVars>>

\* handleTaskDelete: openDeleteModal with a task the page shows
HandleTaskDelete ==
  \E k \in 1..Len(storeTasks) :
    /\ ~Covered
    /\ deletingTask' = <<storeTasks[k]>>
    /\ isDeleteModalOpen' = TRUE
    /\ uiLast' = UiIdle
    /\ UNCHANGED <<isCreateModalOpen, isEditModalOpen, editingTask>>
    /\ UNCHANGED <<taskVars, utilVars, viewVars, prefVars, theme, selectionVars, notificationVars>>

\* the page's create button, or Ctrl+N at any time: uiActions.openCreateModal()
HandleCreateClick ==
  /\ ~isCreateModalOpen
  /\ isCreateModalOpen' = TRUE
  /\ uiLast' = UiIdle
  /\ UNCHANGED <<isEditModalOpen, isDeleteModalOpen, editingTask, deletingTask>>
  /\ UNCHANGED <<taskVars, utilVars, viewVars, prefVars, theme, selectionVars, notificationVars>>

\* the create modal's close and cancel: uiActions.closeCreateModal()
HandleCreateClose ==
  /\ isCreateModalOpen
  /\ isCreateModalOpen' = FALSE
  /\ uiLast' = UiIdle
  /\ UNCHANGED <<isEditModalOpen, isDeleteModalOpen, editingTask, deletingTask>>
  /\ UNCHANGED <<taskVars, utilVars, viewVars, prefVars, theme, selectionVars, notificationVars>>

\* the edit modal's close and cancel: uiActions.closeEditModal()
HandleEditClose ==
  /\ isEditModalOpen
  /\ editingTask' = <<>>
  /\ isEditModalOpen' = FALSE
  /\ uiLast' = UiIdle
  /\ UNCHANGED <<isCreateModalOpen, isDeleteModalOpen, deletingTask>>
  /\ UNCHANGED <<taskVars, utilVars, viewVars, prefVars, theme, selectionVars, notificationVars>>

\* the confirmation dialog's cancel: uiActions.closeDeleteModal()
HandleDeleteCancel ==
  /\ isDeleteModalOpen
  /\ deletingTask' = <<>>
  /\ isDeleteModalOpen' = FALSE
  /\ uiLast' = UiIdle
  /\ UNCHANGED <<isCreateModalOpen, isEditModalOpen, editingTask>>
  /\ UNCHANGED <<taskVars, utilVars, viewVars, prefVars, theme, selectionVars, notificationVars>>

\* a handler up to its await: the head of the taskActions method with the
\* ids the handler passes
Submit(op, ids) ==
  /\ calls < MaxCalls
  /\ calls' = calls + 1
  /\ pending' = Append(pending, Waiting(op, clock, ids))
  /\ isLoading' = TRUE
  /\ error' = Undefined
  /\ unread' = FALSE
  /\ last' = Idle
  /\ UNCHANGED <<clock, mockTasks, tasks, assigned, reused, storeTasks>>
  /\ UNCHANGED <<utilVars, viewVars, prefVars, uiVars>>

\* the create form is submitted
HandleCreateTask ==
  /\ isCreateModalOpen
  /\ Submit("createTask", {})

\* the edit form is submitted: { id: task.id, data }
HandleEditTask ==
  /\ isEditModalOpen
  /\ editingTask # <<>>
  /\ Submit("updateTask", {editingTask[1].id})

\* the deletion is confirmed: if ($deletingTask) deleteTask($deletingTask.id)
HandleDeleteTask ==
  /\ isDeleteModalOpen
  /\ deletingTask # <<>>
  /\ Submit("deleteTask", {deletingTask[1].id})

\* the tail of a taskActions method under a handler: the result applied to
\* the store, then the finally branch
Settle(i, call, out, ret, st, err) ==
  /\ pending' = Remove(pending, i)
  /\ tasks' = out.tasks
  /\ storeTasks' = st
  /\ error' = err
  /\ isLoading' = FALSE
  /\ last' = Step(call, out.resp, FALSE, ret, clock, tasks, storeTasks)
  /\ unread' = FALSE
  /\ UNCHANGED <<mockTasks, calls>>
  /\ UNCHANGED <<utilVars, viewVars, prefVars>>

\* `"${title}" has been ...`
Message(title, rest) == Quote \o title \o Quote \o rest

\* uiActions.addNotification({type: 'success', title, message}) at instant now
Notify(title, message, now) ==
  LET id == toString(now)
  IN /\ added' = added + 1
     /\ notifications' = Append(notifications,
                                [id |-> id, duration |-> DefaultDuration, nth |-> added + 1,
                                 title |-> title, message |-> message])
     /\ timers' = Append(timers, [id |-> id, due |-> now + DefaultDuration, nth |-> added + 1])

\* a handler whose action returned null or false does nothing more
NoTail(op, modal) ==
  /\ uiLast' = [Did(op) EXCEPT !.modal = modal]
  /\ UNCHANGED <<modalVars, theme, selectionVars, notificationVars>>

\* $store.title: reading a property of null raises a TypeError
ReadTitle(current) ==
  IF current = <<>> THEN [raised |-> TRUE, title |-> Undefined]
  ELSE [raised |-> FALSE, title |-> current[1].title]

\* handleCreateTask after its await
HandleCreateTaskDone == \E i \in 1..Len(pending) :
  /\ CanResume(i, "createTask")
  /\ \E taskData \in CreateInputs, rnd \in Rand, d \in 0..1 :
       LET call == Call("createTask", BogusId, taskData, <<>>, pending[i].at)
           id == generateId(clock, rnd)
           out == createTask(tasks, taskData, id, clock, clock + d)
           newTask == out.resp.data[1]
       IN /\ Settle(i, call, out, Returned("task", out.resp.data, 0),
                    StorePrepend(storeTasks, newTask), error)
          /\ assigned' = assigned \cup {id}
          /\ reused' = (reused \/ id \in assigned)
          /\ clock' = clock + d
          /\ isCreateModalOpen' = FALSE
          /\ Notify("Task created", Message(newTask.title, " has been created successfully."),
                    clock + d)
          /\ uiLast' = [Did("handleCreateTask") EXCEPT !.modal = isCreateModalOpen]
          /\ UNCHANGED <<isEditModalOpen, isDeleteModalOpen, editingTask, deletingTask, theme,
                         selectionVars>>

\* handleEditTask after its await
HandleEditTaskDone == \E i \in 1..Len(pending) :
  /\ CanResume(i, "updateTask")
  /\ \E id \in pending[i].known, updateData \in UpdateInputs :
       LET call == Call("updateTask", id, updateData, <<>>, pending[i].at)
           out == updateTask(tasks, id, updateData, clock)
       IN IF out.resp.success
          THEN /\ Settle(i, call, out, Returned("task", out.resp.data, 0),
                         StoreReplace(storeTasks, id, out.resp.data[1]), error)
               /\ editingTask' = <<>>
               /\ isEditModalOpen' = FALSE
               /\ Notify("Task updated",
                         Message(out.resp.data[1].title, " has been updated successfully."), clock)
               /\ uiLast' = [Did("handleEditTask") EXCEPT !.modal = isEditModalOpen]
               /\ UNCHANGED <<isCreateModalOpen, isDeleteModalOpen, deletingTask, theme,
                              selectionVars>>
          ELSE /\ Settle(i, call, out, FailureReturn(call.op), storeTasks,
                         MessageOr(out.resp.message, Fallback(call.op)))
               /\ NoTail("handleEditTask", isEditModalOpen)
  /\ UNCHANGED <<clock, assigned, reused>>

\* handleDeleteTask after its await: closeDeleteModal() runs before the
\* notification's message reads $deletingTask.title
HandleDeleteTaskDone == \E i \in 1..Len(pending) :
  /\ CanResume(i, "deleteTask")
  /\ \E id \in pending[i].known :
       LET call == Call("deleteTask", id, <<>>, <<>>, pending[i].at)
           out == deleteTask(tasks, id)
           closed == <<>>
           read == ReadTitle(closed)
       IN IF out.resp.success
          THEN /\ Settle(i, call, out, Returned("true", <<>>, 0),
                         StoreRemove(storeTasks, id), error)
               /\ deletingTask' = closed
               /\ isDeleteModalOpen' = FALSE
               /\ IF read.raised
                  THEN UNCHANGED notificationVars
                  ELSE Notify("Task deleted", Message(read.title, " has been deleted."), clock)
               /\ uiLast' = [Did("handleDeleteTask") EXCEPT !.modal = isDeleteModalOpen,
                                                            !.raised = read.raised]
               /\ UNCHANGED <<isCreateModalOpen, isEditModalOpen, editingTask, theme,
                              selectionVars>>
          ELSE /\ Settle(i, call, out, FailureReturn(call.op), storeTasks,
                         MessageOr(out.resp.message, Fallback(call.op)))
               /\ NoTail("handleDeleteTask", isDeleteModalOpen)
  /\ UNCHANGED <<clock, assigned, reused>>

NextPage ==
  \/ Tick
  \/ HandleCreateClick
  \/ HandleCreateClose
  \/ HandleTaskEdit
  \/ HandleEditClose
  \/ HandleTaskDelete
  \/ HandleDeleteCancel
  \/ HandleCreateTask
  \/ HandleEditTask
  \/ HandleDeleteTask
  \/ HandleCreateTaskDone
  \/ HandleEditTaskDone
  \/ HandleDeleteTaskDone

SpecPage == InitMounted /\ [][NextPage]_vars

\* a handler whose delay has elapsed is resumed
ResumePage ==
  \/ HandleCreateTaskDone
  \/ HandleEditTaskDone
  \/ HandleDeleteTaskDone

\* time passes, and every timer that is due fires
SpecPageFair == SpecPage /\ WF_vars(Tick) /\ WF_vars(ResumePage)

\* -------------------------------------------------------------- claims
\* the step just taken resumed the facade call `op` of the real facade
Resumed(op) == last.op = op /\ ~last.threw

Succeeded(op) == Resumed(op) /\ last.resp.success

NoDuplicates(ts) == Cardinality(Ids(ts)) = Len(ts)

\* the task of collection ts that findIndex finds for id
Found(ts, id) == ts[FindIndex(ts, id)]

\* C1: when createTask resolves, the facade collection is the previous one
\* with exactly the new task inserted at index 0, and the task returned by
\* taskActions.createTask is at index 0 of the store's collection with the
\* other store tasks behind it in their previous order.
C1_CreatePrepends ==
  Succeeded("createTask") =>
    /\ Len(last.resp.data) = 1
    /\ Len(tasks) = Len(last.prevTasks) + 1
    /\ tasks[1] = last.resp.data[1]
    /\ SubSeq(tasks, 2, Len(tasks)) = last.prevTasks
    /\ last.ret.kind = "task"
    /\ Len(storeTasks) = Len(last.prevStore) + 1
    /\ storeTasks[1] = last.ret.data[1]
    /\ SubSeq(storeTasks, 2, Len(storeTasks)) = last.prevStore

C1_Witness ==
  /\ Succeeded("createTask")
  /\ Len(last.prevTasks) >= 2
  /\ Len(last.prevStore) >= 2

\* C2: every task produced by createTask has createdAt equal to updatedAt,
\* at whatever moment the creation runs.
C2_CreatedEqualsUpdated ==
  Succeeded("createTask") =>
    last.resp.data[1].createdAt = last.resp.data[1].updatedAt

C4_NotFound ==
  \A op \in {"getTask", "updateTask", "deleteTask"} :
    (last.op = op /\ last.call.id \notin Ids(last.prevTasks)) =>
      /\ ~last.threw
      /\ ~last.resp.success
      /\ last.resp.message = "Task not found"
      /\ last.resp.data = <<>>
      /\ tasks = last.prevTasks

C4_Witness ==
  /\ last.op = "deleteTask"
  /\ last.call.id \notin Ids(last.prevTasks)
  /\ last.call.id \in Ids(mockTasks)
  /\ Len(last.prevTasks) >= 1

\* C5: bulkDeleteTasks(ids), for every list of ids, removes exactly the tasks
\* whose id occurs in the list, keeps the other tasks in their order, returns
\* success=true and deletedCount = size before minus size after.
C5_BulkDeleteExact ==
  Resumed("bulkDeleteTasks") =>
    /\ tasks = SelectSeq(last.prevTasks,
                         LAMBDA t : \A k \in 1..Len(last.call.list) : last.call.list[k] # t.id)
    /\ last.resp.success
    /\ last.resp.deletedCount = Len(last.prevTasks) - Len(tasks)

\* C6 (for collections in which no two tasks share an id): after
\* taskActions.bulkUpdateTasks resolves successfully, every store task whose
\* id the facade updated equals the facade's current version of that task,
\* and every other store task is unchanged and in place.
C6_StoreFollowsFacade ==
  (Succeeded("bulkUpdateTasks") /\ NoDuplicates(last.prevTasks) /\ NoDuplicates(last.prevStore)) =>
    /\ Len(storeTasks) = Len(last.prevStore)
    /\ \A k \in 1..Len(storeTasks) :
         IF storeTasks[k].id \in Ids(last.resp.data)
         THEN storeTasks[k] = Found(tasks, storeTasks[k].id)
         ELSE storeTasks[k] = last.prevStore[k]

\* C7: immediately after resetData() the collection is the seed again: as
\* many tasks, the same ids in the same order, the field values of startup.
C7_ResetRestoresSeed ==
  last.op = "resetData" =>
    /\ Len(tasks) = NumSeed
    /\ tasks = mockTasks
    /\ \A i \in 1..NumSeed :
         /\ tasks[i].id[1] = StartTime
         /\ tasks[i].title = SeedData[i].title
         /\ tasks[i].description = SeedData[i].description
         /\ tasks[i].status = SeedData[i].status
         /\ tasks[i].createdAt = SeedData[i].createdAt
         /\ tasks[i].updatedAt = SeedData[i].updatedAt

C7_Witness ==
  /\ last.op = "resetData"
  /\ pending = <<>>
  /\ Len(last.prevTasks) = NumSeed
  /\ last.prevTasks[1].id \notin Ids(mockTasks)
  /\ Ids(mockTasks) \ Ids(last.prevTasks) # {}

\* C8: in every reachable state every task of the facade collection has
\* updatedAt >= createdAt.
C8_UpdatedNotBeforeCreated ==
  \A i \in 1..Len(tasks) : tasks[i].updatedAt >= tasks[i].createdAt

C8_Witness ==
  \E i \in 1..Len(tasks) :
    /\ tasks[i].id \notin Ids(mockTasks)
    /\ tasks[i].updatedAt > tasks[i].createdAt
    /\ last.op = "updateTask"

\* C9: no two tasks of the collection share an id, and generateId never
\* returns an id it returned earlier in the run.
C9_IdsUnique == NoDuplicates(tasks) /\ ~reused

\* a failed store action: its facade call threw or returned success=false
Failed == last.op \in StoreOps /\ (last.threw \/ ~last.resp.success)

\* C10 as claimed: on success=false or a throw the store action leaves the
\* store's collection unchanged, sets error to the returned message (to the
\* 'Network error while ...' text for a throw) and returns null, false or 0.
C10_ErrorIsReturnedMessage ==
  Failed =>
    /\ storeTasks = last.prevStore
    /\ error = (IF last.threw THEN NetworkError(last.op) ELSE last.resp.message)
    /\ last.ret = FailureReturn(last.op)

\* C10 as amended: on success=false or a throw the store action leaves the
\* store's collection unchanged, clears loading, returns null, false or 0
\* (nothing for loadTasks), and sets error to the returned message, or to its
\* 'Failed to ...' text when the result carries no message or an empty one,
\* or to the 'Network error while ...' text for a throw.
C10_FailureSurfaced ==
  Failed =>
    /\ storeTasks = last.prevStore
    /\ tasks = last.prevTasks
    /\ ~isLoading
    /\ last.ret = FailureReturn(last.op)
    /\ error = (IF last.threw THEN NetworkError(last.op)
                ELSE IF last.resp.message \in {Undefined, ""} THEN Fallback(last.op)
                ELSE last.resp.message)

C10_Witness ==
  /\ Failed
  /\ ~last.threw
  /\ last.op = "bulkDeleteTasks"
  /\ last.resp.message = Undefined
  /\ Len(last.prevStore) >= 2

\* a Task Store operation has been issued and has not resolved
StoreOpInFlight == \E i \in 1..Len(pending) : pending[i].op \in StoreOps

\* C11: in every state in which at least one Task Store operation has been
\* issued and has not yet resolved, isLoading is true, for any number of
\* overlapping operations.
C11_LoadingWhilePending == StoreOpInFlight => isLoading

\* C12: every Task Store operation eventually finishes, whatever its outcome
\* (success, failure result, thrown fault), and whenever no Task Store
\* operation is in flight isLoading is false.
C12_LoadingCleared ==
  /\ [](~StoreOpInFlight => ~isLoading)
  /\ (StoreOpInFlight ~> ~StoreOpInFlight)

C12_Witness ==
  /\ ~StoreOpInFlight
  /\ last.op \in StoreOps
  /\ last.threw
  /\ calls = MaxCalls

\* the two characters are the same letter, whatever their case
SameLetter(a, b) ==
  a = b \/ \E n \in 1..Len(UpperCase) : {a, b} = {Char(UpperCase, n), Char(LowerCase, n)}

\* query is a case-insensitive substring of text
InsensitiveSubstring(query, text) ==
  \E i \in 0..(Len(text) - Len(query)) :
    \A k \in 1..Len(query) : SameLetter(Char(text, i + k), Char(query, k))

Wanted(task, statusFilter, query) ==
  /\ statusFilter = "all" \/ task.status = statusFilter
  /\ \/ query = ""
     \/ InsensitiveSubstring(query, task.title)
     \/ task.description # Undefined /\ InsensitiveSubstring(query, task.description)

\* the positions of ts whose task is wanted
WantedAt(ts, statusFilter, query) ==
  {i \in 1..Len(ts) : Wanted(ts[i], statusFilter, query)}

\* the k-th smallest member of a set of positions
Nth(S, k) == CHOOSE i \in S : Cardinality({j \in S : j < i}) = k - 1

\* C13: filterTasks(T, statusFilter, searchQuery) returns exactly the tasks of
\* T, in their original order, for which (statusFilter is 'all' or the status
\* equals it) and (searchQuery is empty, or is a case-insensitive substring of
\* the title or of a present description); so filter(T, 'all', '') is T, and a
\* status filter with a query keeps the tasks both single filters keep.
C13_FilterExact ==
  result.fn = "filterTasks" =>
    LET T == args.tasks
        at == WantedAt(T, args.statusFilter, args.searchQuery)
    IN /\ Len(result.tasks) = Cardinality(at)
       /\ \A k \in 1..Len(result.tasks) : result.tasks[k] = T[Nth(at, k)]
       /\ filterTasks(T, "all", "") = T
       /\ at = WantedAt(T, args.statusFilter, "") \cap WantedAt(T, "all", args.searchQuery)

C13_Witness ==
  /\ result.fn = "filterTasks"
  /\ args.statusFilter = "pending"
  /\ args.searchQuery = "FIRST"
  /\ Len(args.tasks) = 3
  /\ Len(result.tasks) = 2
  /\ result.tasks[1] # result.tasks[2]
  /\ args.tasks[1].status = "completed"

Reverse(ts) == [k \in 1..Len(ts) |-> ts[Len(ts) + 1 - k]]

\* C14 as claimed: for every task list and every sort field,
\* sortTasks(T, field, 'desc') is the element-by-element reverse of
\* sortTasks(T, field, 'asc').
C14_DescReversesAsc ==
  result.fn = "sortTasks" =>
    sortTasks(args.tasks, args.field, "desc") = Reverse(sortTasks(args.tasks, args.field, "asc"))

\* no two tasks of ts have equal sort values
DistinctValues(ts, field) ==
  \A i, j \in 1..Len(ts) :
    i # j => (ValueLess(ts[i], ts[j], field) \/ ValueLess(ts[j], ts[i], field))

\* the rearrangements of the positions 1..n
Rearrangements(n) == {pi \in [1..n -> 1..n] : \A i, j \in 1..n : pi[i] = pi[j] => i = j}

\* C14 as amended: sortTasks returns a rearrangement of T in which no task
\* stands before one with a smaller value ('asc') or a larger value ('desc'),
\* and tasks with equal values stand in their input order in both directions;
\* so the 'desc' output is the reverse of the 'asc' output when no two tasks
\* of T have equal values of the sort field (titles compared ignoring case).
C14_SortOrdersStably ==
  result.fn = "sortTasks" =>
    LET T == args.tasks
        R == result.tasks
        f == args.field
    IN /\ \E pi \in Rearrangements(Len(T)) :
            /\ R = [k \in 1..Len(T) |-> T[pi[k]]]
            /\ \A k, l \in 1..Len(T) :
                 k < l =>
                   /\ ~(IF result.direction = "asc" THEN ValueLess(R[l], R[k], f)
                        ELSE ValueLess(R[k], R[l], f))
                   /\ (~ValueLess(R[k], R[l], f) /\ ~ValueLess(R[l], R[k], f)) => pi[k] < pi[l]
       /\ DistinctValues(T, f) =>
            sortTasks(T, f, "desc") = Reverse(sortTasks(T, f, "asc"))

C14_Witness ==
  /\ result.fn = "sortTasks"
  /\ result.direction = "desc"
  /\ args.field = "title"
  /\ Len(args.tasks) = 3
  /\ ~DistinctValues(args.tasks, "title")
  /\ result.tasks # args.tasks
  /\ result.tasks # Reverse(sortTasks(args.tasks, "title", "asc"))

\* how many tasks of the store's collection have the status
Having(status) == Cardinality({k \in 1..Len(storeTasks) : storeTasks[k].status = status})

\* C15: taskStats has total = number of tasks = pending + inProgress +
\* completed, and completionRate = round(completed / total * 100), the whole
\* number nearest to the percentage (a half rounds up), when total > 0 and 0
\* when the collection is empty; so it is a whole number in 0..100.
C15_StatsExact ==
  result.fn = "taskStats" =>
    LET st == result.stats
    IN /\ st.total = Len(storeTasks)
       /\ st.pending = Having("pending")
       /\ st.inProgress = Having("in-progress")
       /\ st.completed = Having("completed")
       /\ st.total = st.pending + st.inProgress + st.completed
       /\ st.completionRate \in 0..100
       /\ st.total = 0 => st.completionRate = 0
       /\ st.total > 0 =>
            /\ 2 * st.total * st.completionRate - st.total <= 200 * st.completed
            /\ 200 * st.completed < 2 * st.total * st.completionRate + st.total

TurnedOff == uiLast.op = "toggleSelectMode" /\ uiLast.isSelectMode /\ ~isSelectMode

\* C18: after any toggleSelectMode call that changes isSelectMode from true
\* to false, selectedTaskIds is empty.
C18_TurningOffClears == TurnedOff => selectedTaskIds = {}

\* C19: after any sequence of modal operations the edit modal is open exactly
\* when editingTask is bound and the delete modal is open exactly when
\* deletingTask is bound; closeAllModals leaves all three modals closed and
\* both bound tasks null.
C19_ModalsBound ==
  /\ isEditModalOpen <=> editingTask # <<>>
  /\ isDeleteModalOpen <=> deletingTask # <<>>
  /\ uiLast.op = "closeAllModals" =>
       /\ ~isCreateModalOpen /\ ~isEditModalOpen /\ ~isDeleteModalOpen
       /\ editingTask = <<>> /\ deletingTask = <<>>

\* the edit modal was closed on its own while the delete modal stays open on
\* its task
C19_Witness ==
  /\ uiLast.op = "closeEditModal"
  /\ ~isEditModalOpen /\ editingTask = <<>>
  /\ isDeleteModalOpen /\ deletingTask # <<>>

Cycle == {<<"light", "dark">>, <<"dark", "system">>, <<"system", "light">>}

\* C20: from every theme value one toggleTheme yields the next value of the
\* cycle light -> dark -> system -> light, and three consecutive toggles
\* return the theme to the value the first of them found.
C20_ThemeCycle ==
  uiLast.op = "toggleTheme" =>
    /\ <<uiLast.theme, theme>> \in Cycle
    /\ uiLast.run = 3 => theme = uiLast.start

\* three toggles in a row that started from dark
C20_Witness == uiLast.op = "toggleTheme" /\ uiLast.run = 3 /\ uiLast.start = "dark" /\ theme = "dark"

\* the notification object made by the nth call of addNotification is in the
\* queue
Queued(queue, nth) == \E k \in 1..Len(queue) : queue[k].nth = nth

Dismissed(call, n) ==
  \/ call.op = "clearAllNotifications"
  \/ call.op = "removeNotification" /\ call.id = n.id

\* C16: a notification added with duration 0 is never auto-removed: it stays
\* in the queue until removeNotification is called for it or
\* clearAllNotifications is called, whatever other notifications are added
\* (at any instant, the same one included) and whatever timers fire.
C16_PersistentStays ==
  [][\A k \in 1..Len(notifications) :
       (notifications[k].duration = 0 /\ ~Queued(notifications', notifications[k].nth))
         => Dismissed(uiLast', notifications[k])]_vars

\* C17: a notification added without a duration gets duration 5000; it is in
\* the queue from addNotification until the earlier of its timer firing and
\* an explicit removal, and it is not in the queue after its timer has fired.
C17_DefaultExpires ==
  /\ [](uiLast.op = "addNotification" =>
          /\ Queued(notifications, uiLast.nth)
          /\ uiLast.given = <<>> => notifications[Len(notifications)].duration = 5000)
  /\ [][\A k \in 1..Len(notifications) :
          (notifications[k].duration = 5000 /\ ~Queued(notifications', notifications[k].nth))
            => \/ Dismissed(uiLast', notifications[k])
               \/ uiLast'.op = "timer" /\ uiLast'.nth = notifications[k].nth]_vars
  /\ [](uiLast.op = "timer" => ~Queued(notifications, uiLast.nth))

\* C24: after removeNotification(id) or clearAllNotifications has removed a
\* notification before its duration has elapsed, no timer callback for that
\* notification remains scheduled.
C24_DismissalCancelsTimer ==
  uiLast.op \in {"removeNotification", "clearAllNotifications"} =>
    \A k \in 1..Len(timers) : Queued(notifications, timers[k].nth)

\* C29: no two notifications in the queue share an id, however many calls of
\* addNotification are made and at whatever instants.
C29_NotificationIdsDistinct ==
  \A j, k \in 1..Len(notifications) : j # k => notifications[j].id # notifications[k].id

\* the items a preference store can have written: the JSON of a theme, a
\* view mode, a boolean, the default number
JSONTexts ==
  {"\"light\"", "\"dark\"", "\"system\"", "\"grid\"", "\"list\"", "true", "false", "12"}

\* there is nothing to read under the key: no item, or one that is no JSON
Unreadable(item) == item = <<>> \/ item[1] \notin JSONTexts

\* C21: in the browser every persisted preference is written through on every
\* change: while the page is open and storage writes succeed, the item under
\* each key is the JSON of the store's current value; and a fresh start
\* initialises each store to the last value set, or to its stated default
\* when the key has no item or an unparsable one.
C21_PreferencesPersist ==
  /\ []((browser /\ running /\ ~storageFull) =>
          \A key \in Keys :
            /\ localStorage[key] # <<>>
            /\ localStorage[key][1] \in JSONTexts
            /\ JSONparse(localStorage[key][1]).value = Prefs[key])
  /\ [][uiLast'.op = "start" =>
          \A key \in Keys :
            /\ Unreadable(localStorage[key]) => Prefs[key]' = Defaults[key]
            /\ (~Unreadable(localStorage[key]) /\ ~storageFull) => Prefs[key]' = Prefs[key]]_vars

\* a fresh start found the item of the view mode unparsable and fell back to
\* the default, and restored the theme and the sidebar set before
C21_Witness ==
  /\ uiLast.op = "start"
  /\ ~storageFull
  /\ theme = "dark" /\ localStorage["theme"] = <<"\"dark\"">>
  /\ sidebarCollapsed /\ localStorage["sidebarCollapsed"] = <<"true">>
  /\ viewMode = "grid" /\ isDragDropEnabled = FALSE

\* C22: sort preferences are saved to localStorage: after the user changed
\* the sort field or direction, a fresh start of the page restores them
\* instead of the defaults createdAt/desc.
C22_SortRestored ==
  [][uiLast'.op = "start" => (sortField' = sortField /\ sortDirection' = sortDirection)]_vars

\* the step before was a drag that ended on the displayed list
Reordered == last.op = "reorderTasks"

\* C23: dragging reorders the tasks in any view: after the task displayed at
\* oldIndex was dragged to newIndex, the displayed list shows it at newIndex
\* and the other displayed tasks in their previous relative order, whatever
\* the status filter, the search query, the sort field and the direction.
C23_DragReordersView ==
  Reordered =>
    LET items == filteredTasksOf(last.prevStore)
        oldIndex == last.call.data.oldIndex
        newIndex == last.call.data.newIndex
    IN /\ Len(filteredTasks) = Len(items)
       /\ filteredTasks[newIndex + 1] = items[oldIndex + 1]
       /\ SpliceOut(filteredTasks, newIndex) = SpliceOut(items, oldIndex)

\* C28: a drag never adds or loses tasks: after handleTaskReorder the store
\* holds exactly the tasks it held before, in some order, whatever filter or
\* search is active.
C28_ReorderPermutes ==
  Reordered =>
    /\ Len(storeTasks) = Len(last.prevStore)
    /\ \A k \in 1..Len(last.prevStore) :
         Cardinality({j \in 1..Len(storeTasks) : storeTasks[j] = last.prevStore[k]})
           = Cardinality({j \in 1..Len(last.prevStore) : last.prevStore[j] = last.prevStore[k]})

\* C26: once loadTasks has completed, and reorderTasks and resetData are not
\* used, whenever no store operation is in flight the store's collection is
\* the facade's collection: the same tasks in the same order, for every
\* interleaving of overlapping operations.
C26_StoreIsFacade == ~StoreOpInFlight => storeTasks = tasks

\* the tasks a facade mutation names
Touched(call) ==
  CASE call.op \in {"updateTask", "deleteTask"} -> {call.id}
    [] call.op = "bulkUpdateTasks" -> {call.list[k].id : k \in 1..Len(call.list)}
    [] call.op = "bulkDeleteTasks" -> {call.list[k] : k \in 1..Len(call.list)}
    [] OTHER -> {}

\* C27: facade mutations on the same task take effect in the order in which
\* they were issued, whatever their latencies: of two mutations that name a
\* common task and take effect one after the other, the first was not issued
\* after the second.
C27_IssueOrder ==
  [][(Touched(last.call) \cap Touched(last'.call)) \ {BogusId} # {}
       => last.call.at <= last'.call.at]_vars

\* the call of a handler is in flight
Issued(op) == \E i \in 1..Len(pending) : pending[i].op = op

\* the result of the call that just resolved is in the store's collection
ResultApplied ==
  CASE ~last.resp.success -> storeTasks = last.prevStore
    [] last.op = "createTask" ->
         /\ Len(storeTasks) = Len(last.prevStore) + 1
         /\ storeTasks[1] = last.resp.data[1]
         /\ \A k \in 1..Len(last.prevStore) : storeTasks[k + 1] = last.prevStore[k]
    [] last.op = "updateTask" ->
         /\ Len(storeTasks) = Len(last.prevStore)
         /\ \A k \in 1..Len(storeTasks) :
              storeTasks[k] = IF last.prevStore[k].id = last.call.id
                              THEN last.resp.data[1] ELSE last.prevStore[k]
    [] last.op = "deleteTask" ->
         /\ \A k \in 1..Len(storeTasks) : storeTasks[k].id # last.call.id
         /\ storeTasks = SelectSeq(last.prevStore, LAMBDA t : t.id # last.call.id)

\* C25: cancellation is not supported: once handleCreateTask, handleEditTask
\* or handleDeleteTask has issued its call, the call eventually resolves and
\* its result is applied to the store's collection, even if the user closed
\* the initiating modal or opened another one in the meantime.
C25_NoCancellation ==
  /\ \A op \in {"createTask", "updateTask", "deleteTask"} :
       Issued(op) ~> (Resumed(op) /\ ResultApplied)
  /\ [](\A op \in {"createTask", "updateTask", "deleteTask"} : Resumed(op) => ResultApplied)

\* a creation resolved after the user had closed the create modal and opened
\* the edit modal: the new task is in the store all the same
C25_Witness ==
  /\ uiLast.op = "handleCreateTask"
  /\ ~uiLast.modal
  /\ isEditModalOpen
  /\ Succeeded("createTask")
  /\ storeTasks[1] = last.resp.data[1]

\* C30: after the user confirmed a deletion and deleteTask resolved with
\* success, handleDeleteTask completes without raising an error: the delete
\* modal is closed and a success notification titled 'Task deleted' that
\* names the deleted task is the last of the notification queue.
C30_DeleteNotifies ==
  (uiLast.op = "handleDeleteTask" /\ Succeeded("deleteTask")) =>
    /\ ~uiLast.raised
    /\ ~isDeleteModalOpen
    /\ Len(notifications) = Len(uiLast.notifications) + 1
    /\ notifications[Len(notifications)].title = "Task deleted"

====
